---------------------------- MODULE Spec2Model ----------------------------
(***************************************************************************)
(* A model of the aniimax production optimizer (src/src/optimizer.rs and   *)
(* src/src/models.rs): the recursive requirement resolver, the efficiency  *)
(* calculator, the facility allocator and the three path planners.         *)
(*                                                                         *)
(* In the resolver, the efficiency calculator and the planners f64 values  *)
(* are modelled as exact fractions <<n, d>> with d >= 0; d = 0 stands for  *)
(* the IEEE special values (+inf = <<1,0>>, -inf = <<-1,0>>, NaN =         *)
(* <<0,0>>).  In the facility allocator, whose result turns on the         *)
(* rounding of a product and a quotient, f64 values are modelled bit for   *)
(* bit.                                                                    *)
(* Option<T> is modelled as a sequence: <<>> is None, <<v>> is Some(v).    *)
(***************************************************************************)
EXTENDS Integers, Sequences, FiniteSets, TLC

VARIABLES
    pc,         \* position of the modelled run
    items,      \* the catalog: a sequence of ProductionItem records
    fc,         \* FacilityCounts
    ml,         \* ModuleLevels
    call,       \* the arguments of the call the run makes, beside items, fc and ml
    reqs,       \* the result of calculate_item_requirements
    effs,       \* the result of calculate_efficiencies
    allocation, \* the result of calculate_optimal_facility_allocation
    selection,  \* the greedy loop of find_parallel_production_path
    energy_effs,\* the result of calculate_energy_efficiencies
    path        \* the Option<ProductionPath> a planner returned

vars == <<pc, items, fc, ml, call, reqs, effs, allocation, selection, energy_effs, path>>

---------------------------------------------------------------------------
(* Option<T> *)
None == <<>>
Some(v) == <<v>>
is_some(o) == o # <<>>
is_none(o) == o = <<>>
unwrap(o) == o[1]
unwrap_or(o, v) == IF o = <<>> THEN v ELSE o[1]

---------------------------------------------------------------------------
(* f64 as exact fractions with the IEEE special values *)
Abs(x) == IF x < 0 THEN -x ELSE x
Sign(x) == IF x > 0 THEN 1 ELSE IF x < 0 THEN -1 ELSE 0

RECURSIVE Gcd(_, _)
Gcd(a, b) == IF b = 0 THEN a ELSE Gcd(b, a % b)

Norm(n, d) ==
    IF d = 0 THEN <<Sign(n), 0>>
    ELSE LET g == Gcd(Abs(n), d) IN <<n \div g, d \div g>>

F(n) == <<n, 1>>
INF == <<1, 0>>
NAN == <<0, 0>>
is_nan(x) == x = NAN
is_finite(x) == x[2] # 0

FNeg(x) == <<-x[1], x[2]>>
FAdd(x, y) ==
    IF is_nan(x) \/ is_nan(y) THEN NAN
    ELSE IF x[2] = 0 /\ y[2] = 0 THEN (IF x[1] = y[1] THEN x ELSE NAN)
    ELSE IF x[2] = 0 THEN x
    ELSE IF y[2] = 0 THEN y
    ELSE Norm(x[1] * y[2] + y[1] * x[2], x[2] * y[2])
FSub(x, y) == FAdd(x, FNeg(y))
FMul(x, y) == Norm(x[1] * y[1], x[2] * y[2])
FRecip(y) ==
    IF y[1] > 0 THEN <<y[2], y[1]>>
    ELSE IF y[1] < 0 THEN <<-y[2], -y[1]>>
    ELSE <<y[2], 0>>
FDiv(x, y) == FMul(x, FRecip(y))

FLt(x, y) ==
    /\ ~is_nan(x)
    /\ ~is_nan(y)
    /\ IF x[2] = 0 /\ y[2] = 0 THEN x[1] < y[1] ELSE x[1] * y[2] < y[1] * x[2]
FGt(x, y) == FLt(y, x)
FEq(x, y) == ~is_nan(x) /\ ~is_nan(y) /\ x = y
FLe(x, y) == FLt(x, y) \/ FEq(x, y)
FGe(x, y) == FLe(y, x)

\* f64::max / f64::min: a NaN operand is ignored
FMax(x, y) == IF is_nan(x) THEN y ELSE IF is_nan(y) THEN x ELSE IF FLt(x, y) THEN y ELSE x
FMin(x, y) == IF is_nan(x) THEN y ELSE IF is_nan(y) THEN x ELSE IF FLt(y, x) THEN y ELSE x

FloorDiv(n, d) == n \div d
CeilDiv(n, d) == -((-n) \div d)
FCeil(x) == IF x[2] = 0 THEN x ELSE F(CeilDiv(x[1], x[2]))
FFloor(x) == IF x[2] = 0 THEN x ELSE F(FloorDiv(x[1], x[2]))

\* `x as u32`: NaN and negative values become 0.  The inputs of the model keep
\* every cast value far below u32::MAX, so the upper saturation is not modelled.
AsU32(x) ==
    IF is_nan(x) \/ x[1] <= 0 THEN 0
    ELSE FloorDiv(x[1], x[2])

---------------------------------------------------------------------------
(* f64 bit for bit, for the facility allocator.  A non-negative double is   *)
(* [m, e]: the value m * 2^e, with m an odd natural number as a sequence of *)
(* 15-bit limbs, least significant first, or m = <<>> and e = 0 for 0.0.    *)
(* Products, quotients and differences round to nearest, ties to even, at   *)
(* 53 significant bits as IEEE 754 binary64 does; the values the allocator  *)
(* meets are far from the subnormal and the overflow range.                 *)

Limb == 2^15
\* f64::MANTISSA_DIGITS
MantissaDigits == 53

RECURSIVE BigTrim(_)
BigTrim(x) ==
    IF x = <<>> THEN <<>>
    ELSE IF x[Len(x)] = 0 THEN BigTrim(SubSeq(x, 1, Len(x) - 1))
    ELSE x

RECURSIVE BigFromInt(_)
BigFromInt(n) == IF n = 0 THEN <<>> ELSE <<n % Limb>> \o BigFromInt(n \div Limb)

RECURSIVE BigToInt(_)
BigToInt(x) == IF x = <<>> THEN 0 ELSE x[1] + Limb * BigToInt(Tail(x))

BigHead(x) == IF x = <<>> THEN 0 ELSE x[1]
BigTail(x) == IF x = <<>> THEN <<>> ELSE Tail(x)

RECURSIVE BigAddCarry(_, _, _)
BigAddCarry(x, y, carry) ==
    IF x = <<>> /\ y = <<>> THEN BigFromInt(carry)
    ELSE <<(BigHead(x) + BigHead(y) + carry) % Limb>>
         \o BigAddCarry(BigTail(x), BigTail(y),
                        (BigHead(x) + BigHead(y) + carry) \div Limb)
BigAdd(x, y) == BigAddCarry(x, y, 0)

RECURSIVE BigSubBorrow(_, _, _)
BigSubBorrow(x, y, borrow) ==
    IF x = <<>> THEN <<>>
    ELSE IF x[1] - BigHead(y) - borrow < 0
         THEN <<x[1] - BigHead(y) - borrow + Limb>>
              \o BigSubBorrow(Tail(x), BigTail(y), 1)
         ELSE <<x[1] - BigHead(y) - borrow>>
              \o BigSubBorrow(Tail(x), BigTail(y), 0)
\* x - y for x >= y
BigSub(x, y) == BigTrim(BigSubBorrow(x, y, 0))

RECURSIVE BigCmpFrom(_, _, _)
BigCmpFrom(x, y, i) ==
    IF i = 0 THEN 0
    ELSE IF x[i] < y[i] THEN -1
    ELSE IF x[i] > y[i] THEN 1
    ELSE BigCmpFrom(x, y, i - 1)
\* -1, 0 or 1 as x is below, equal to or above y
BigCmp(x, y) ==
    IF Len(x) < Len(y) THEN -1
    ELSE IF Len(x) > Len(y) THEN 1
    ELSE BigCmpFrom(x, y, Len(x))

RECURSIVE BigMulCarry(_, _, _)
BigMulCarry(x, r, carry) ==
    IF x = <<>> THEN BigFromInt(carry)
    ELSE <<(x[1] * r + carry) % Limb>>
         \o BigMulCarry(Tail(x), r, (x[1] * r + carry) \div Limb)
\* x * r for 0 <= r < 2^15
BigMulSmall(x, r) == BigTrim(BigMulCarry(x, r, 0))

\* x * 2^k
BigShl(x, k) ==
    IF x = <<>> THEN <<>>
    ELSE [i \in 1..(k \div 15) |-> 0] \o BigMulSmall(x, 2^(k % 15))

\* floor(x / 2^k)
BigShr(x, k) ==
    LET y == SubSeq(x, (k \div 15) + 1, Len(x))
        s == k % 15
    IN  BigTrim([i \in 1..Len(y) |->
                    (y[i] \div 2^s)
                    + (IF i < Len(y) THEN (y[i + 1] % 2^s) * 2^(15 - s) ELSE 0)])

RECURSIVE BitLen(_)
BitLen(n) == IF n = 0 THEN 0 ELSE 1 + BitLen(n \div 2)
BigBitLen(x) == IF x = <<>> THEN 0 ELSE 15 * (Len(x) - 1) + BitLen(x[Len(x)])
\* x mod 2^k
BigLowBits(x, k) == BigSub(x, BigShl(BigShr(x, k), k))
BigOdd(x) == x # <<>> /\ x[1] % 2 = 1

RECURSIVE TrailingZeros(_)
TrailingZeros(x) ==
    IF x = <<>> THEN 0
    ELSE IF x[1] = 0 THEN 15 + TrailingZeros(Tail(x))
    ELSE IF x[1] % 2 = 0 THEN 1 + TrailingZeros(<<x[1] \div 2>>)
    ELSE 0

\* the double m * 2^e for m of at most 53 bits
DNormBy(m, e, zeros) ==
    IF m = <<>> THEN [m |-> <<>>, e |-> 0]
    ELSE [m |-> BigShr(m, zeros), e |-> e + zeros]
DNorm(m, e) == DNormBy(m, e, TrailingZeros(m))

\* q rounded up or kept: c compares the dropped bits with half a unit of q
DRoundUp(q, c, sticky) ==
    IF c > 0 \/ (c = 0 /\ (sticky \/ BigOdd(q))) THEN BigAdd(q, <<1>>) ELSE q

DRoundAt(m, e, k, sticky) ==
    DNorm(DRoundUp(BigShr(m, k), BigCmp(BigLowBits(m, k), BigShl(<<1>>, k - 1)),
                   sticky),
          e + k)

\* The double nearest to m * 2^e (plus a fraction of 2^e when sticky), ties to even.
DRound(m, e, sticky) ==
    IF BigBitLen(m) <= MantissaDigits THEN DNorm(m, e)
    ELSE DRoundAt(m, e, BigBitLen(m) - MantissaDigits, sticky)

\* `n as f64` for a u32 below 2^31
DInt(n) == DNorm(BigFromInt(n), 0)
DZero == DInt(0)
\* `n as f64 * x` for n < 2^15
DMulInt(n, x) == DRound(BigMulSmall(x.m, n), x.e, FALSE)

DMinExp(x, y) == IF x.e < y.e THEN x.e ELSE y.e
DAligned(x, e) == BigShl(x.m, x.e - e)
\* partial_cmp
DCmp(x, y) == BigCmp(DAligned(x, DMinExp(x, y)), DAligned(y, DMinExp(x, y)))
DLt(x, y) == DCmp(x, y) < 0
DGt(x, y) == DCmp(x, y) > 0
DLe(x, y) == DCmp(x, y) <= 0

\* (x - y).abs()
DAbsDiff(x, y) ==
    DRound(IF DCmp(x, y) >= 0
           THEN BigSub(DAligned(x, DMinExp(x, y)), DAligned(y, DMinExp(x, y)))
           ELSE BigSub(DAligned(y, DMinExp(x, y)), DAligned(x, DMinExp(x, y))),
           DMinExp(x, y), FALSE)

\* One step of the long division: the next bit of the quotient.
DivStep(q2, r2, d) ==
    IF BigCmp(r2, d) >= 0 THEN <<BigAdd(q2, <<1>>), BigSub(r2, d)>> ELSE <<q2, r2>>

RECURSIVE DivBits(_, _, _)
\* n more quotient bits: qr is <<quotient, remainder>>
DivBits(qr, d, n) ==
    IF n = 0 \/ Len(qr) = 0 THEN qr
    ELSE DivBits(DivStep(BigMulSmall(qr[1], 2), BigMulSmall(qr[2], 2), d), d, n - 1)

\* MantissaDigits + 2 quotient bits, in five rounds
DivRound == (MantissaDigits + 2) \div 5
DivAllBits(qr, d) ==
    DivBits(DivBits(DivBits(DivBits(DivBits(qr, d, DivRound), d, DivRound),
                            d, DivRound), d, DivRound), d, DivRound)

DQuotient(qr, e) == DRound(qr[1], e, qr[2] # <<>>)

\* a * 2^ea / (b * 2^eb) for a and b of exactly 53 bits
DDivAligned(a, ea, b, eb) ==
    DQuotient(DivAllBits(IF BigCmp(a, b) >= 0 THEN << <<1>>, BigSub(a, b) >>
                         ELSE << <<>>, a >>,
                         b),
              ea - eb - (MantissaDigits + 2))

\* x / y for y > 0
DDiv(x, y) ==
    IF x.m = <<>> THEN DZero
    ELSE DDivAligned(BigShl(x.m, MantissaDigits - BigBitLen(x.m)),
                     x.e - (MantissaDigits - BigBitLen(x.m)),
                     BigShl(y.m, MantissaDigits - BigBitLen(y.m)),
                     y.e - (MantissaDigits - BigBitLen(y.m)))

\* `x.floor() as u32` for x below 2^31
DFloor(x) ==
    IF x.e >= 0 THEN BigToInt(BigShl(x.m, x.e)) ELSE BigToInt(BigShr(x.m, -x.e))

\* `x.round() as u32`: halves round away from zero
DRoundInt(x) ==
    DFloor(x)
    + (IF x.e < 0 /\ BigCmp(BigLowBits(x.m, -x.e), BigShl(<<1>>, -x.e - 1)) >= 0
       THEN 1 ELSE 0)

\* The double a decimal literal or data field with the value n / d parses to.
DParse(n, d) == DDiv(DInt(n), DInt(d))

---------------------------------------------------------------------------
(* models.rs: FacilityCounts and ModuleLevels *)

get_count(facility_counts, facility) ==
    CASE facility = "Farmland" -> facility_counts.farmland[1]
      [] facility = "Woodland" -> facility_counts.woodland[1]
      [] facility = "Mineral Pile" -> facility_counts.mineral_pile[1]
      [] facility = "Carousel Mill" -> facility_counts.carousel_mill[1]
      [] facility = "Jukebox Dryer" -> facility_counts.jukebox_dryer[1]
      [] facility = "Crafting Table" -> facility_counts.crafting_table[1]
      [] facility = "Dance Pad Polisher" -> facility_counts.dance_pad_polisher[1]
      [] facility = "Aniipod Maker" -> facility_counts.aniipod_maker[1]
      [] facility = "Nimbus Bed" -> facility_counts.nimbus_bed[1]
      [] OTHER -> 1

\* get_level with 0 for a facility that is not configured
get_level_unknown_zero(facility_counts, facility) ==
    CASE facility = "Farmland" -> facility_counts.farmland[2]
      [] facility = "Woodland" -> facility_counts.woodland[2]
      [] facility = "Mineral Pile" -> facility_counts.mineral_pile[2]
      [] facility = "Carousel Mill" -> facility_counts.carousel_mill[2]
      [] facility = "Jukebox Dryer" -> facility_counts.jukebox_dryer[2]
      [] facility = "Crafting Table" -> facility_counts.crafting_table[2]
      [] facility = "Dance Pad Polisher" -> facility_counts.dance_pad_polisher[2]
      [] facility = "Aniipod Maker" -> facility_counts.aniipod_maker[2]
      [] facility = "Nimbus Bed" -> facility_counts.nimbus_bed[2]
      [] OTHER -> 0

get_level(facility_counts, facility) ==
    CASE facility = "Farmland" -> facility_counts.farmland[2]
      [] facility = "Woodland" -> facility_counts.woodland[2]
      [] facility = "Mineral Pile" -> facility_counts.mineral_pile[2]
      [] facility = "Carousel Mill" -> facility_counts.carousel_mill[2]
      [] facility = "Jukebox Dryer" -> facility_counts.jukebox_dryer[2]
      [] facility = "Crafting Table" -> facility_counts.crafting_table[2]
      [] facility = "Dance Pad Polisher" -> facility_counts.dance_pad_polisher[2]
      [] facility = "Aniipod Maker" -> facility_counts.aniipod_maker[2]
      [] facility = "Nimbus Bed" -> facility_counts.nimbus_bed[2]
      [] OTHER -> 1

can_produce(facility_counts, facility, required_level) ==
    get_level(facility_counts, facility) >= required_level

module_get_level(module_levels, module_name) ==
    CASE module_name = "ecological_module" -> module_levels.ecological_module
      [] module_name = "kitchen_module" -> module_levels.kitchen_module
      [] module_name = "mineral_detector" -> module_levels.mineral_detector
      [] module_name = "crafting_module" -> module_levels.crafting_module
      [] OTHER -> 0

can_use(module_levels, module_name, required_level) ==
    module_get_level(module_levels, module_name) >= required_level

---------------------------------------------------------------------------
(* optimizer.rs: the requirement resolver *)

\* The machine stack holds this many nested calls of calculate_item_requirements;
\* one more overflows it and aborts the process.
StackLimit == 8

\* HashMap<String, &ProductionItem> built by `items.iter().map(..).collect()`:
\* of two entries with one name the later one stays.
build_item_map(catalog) ==
    [n \in {catalog[i].name : i \in DOMAIN catalog} |->
        catalog[CHOOSE i \in DOMAIN catalog :
                    /\ catalog[i].name = n
                    /\ \A j \in DOMAIN catalog : catalog[j].name = n => j <= i]]

map_get(item_map, name) ==
    IF name \in DOMAIN item_map THEN Some(item_map[name]) ELSE None

high_speed(item_name) == "high_speed_" \o item_name

module_ok(item, module_levels) ==
    IF is_some(item.module_requirement)
    THEN can_use(module_levels, unwrap(item.module_requirement)[1],
                 unwrap(item.module_requirement)[2])
    ELSE TRUE

\* The result every early return builds.  Beside the fields of
\* ProductionRequirements the model records what the call left behind: the
\* visited set, the requested names in call order, the entry it selected (None
\* when the call returned before or without selecting one), and whether the
\* recursion ran out of stack.
invalid_requirements(visited, calls) ==
    [ total_time |-> F(0), total_energy |-> None, total_cost |-> F(0),
      raw_names |-> <<>>, primary_facility |-> None, all_facilities |-> {},
      intermediate_steps |-> <<>>, is_valid |-> FALSE,
      visited |-> visited, calls |-> calls, selected |-> None, overflow |-> FALSE ]

stack_overflow(visited, calls) ==
    [invalid_requirements(visited, calls) EXCEPT !.overflow = TRUE]

\* The resolver without its cycle guard.
cycle_guard_removed(item_name, visited) == FALSE

\* The cycle guard: the requested name is looked up in the visited set.
cycle_guard(item_name, visited) == item_name \in visited

\* What a cycle hit returns.
cycle_result(visited, calls) == invalid_requirements(visited, calls)

\* Variant selection that forgets the facility-level check of the variant.
select_variant_no_level(item_name, item_map, facility_counts, module_levels) ==
    LET high_speed_name == high_speed(item_name)
        hs == map_get(item_map, high_speed_name)
        base == map_get(item_map, item_name)
    IN  IF is_some(hs) /\ module_ok(unwrap(hs), module_levels)
        THEN Some(<<unwrap(hs), high_speed_name>>)
        ELSE IF is_some(base)
             THEN Some(<<unwrap(base), item_name>>)
             ELSE None

\* Variant selection: Some(<<item, actual_name>>) or None when no entry is found.
select_variant(item_name, item_map, facility_counts, module_levels) ==
    LET high_speed_name == high_speed(item_name)
        hs == map_get(item_map, high_speed_name)
        base == map_get(item_map, item_name)
    IN  IF is_some(hs)
        THEN LET hs_item == unwrap(hs)
                 can_use_hs == module_ok(hs_item, module_levels)
                 can_produce_hs == can_produce(facility_counts, hs_item.facility,
                                               hs_item.facility_level)
             IN  IF can_use_hs /\ can_produce_hs
                 THEN Some(<<hs_item, high_speed_name>>)
                 ELSE IF is_some(base)
                      THEN Some(<<unwrap(base), item_name>>)
                      ELSE None
        ELSE IF is_some(base)
             THEN Some(<<unwrap(base), item_name>>)
             ELSE None

\* The gates without the fertilizer gate.
gates_pass_no_fertilizer(item, facility_counts, module_levels, nimbus_bed_count) ==
    /\ can_produce(facility_counts, item.facility, item.facility_level)
    /\ module_ok(item, module_levels)

\* The three gates on the selected entry.
gates_pass(item, facility_counts, module_levels, nimbus_bed_count) ==
    /\ can_produce(facility_counts, item.facility, item.facility_level)
    /\ module_ok(item, module_levels)
    /\ ~(item.requires_fertilizer /\ nimbus_bed_count = 0)

\* The lookup that decides whether an ingredient is a processed intermediate.
mat_item_lookup(raw_mat, item_map, facility_counts, module_levels) ==
    LET hs == map_get(item_map, high_speed(raw_mat))
    IN  IF /\ is_some(hs)
           /\ module_ok(unwrap(hs), module_levels)
           /\ can_produce(facility_counts, unwrap(hs).facility, unwrap(hs).facility_level)
        THEN hs
        ELSE map_get(item_map, raw_mat)

add_energy(total, e) ==
    IF is_some(e) THEN Some(FAdd(unwrap_or(total, F(0)), unwrap(e))) ELSE total

\* The base case: a raw material.
raw_requirements(item, actual_name, required_amount, facility_counts, fertilizer_time_per_unit, visited, calls) ==
    LET facility_count == F(get_count(facility_counts, item.facility))
        batches_needed == FCeil(FDiv(required_amount, F(item.yield_amount)))
        time_per_batch == F(item.production_time)
        parallel_batches == FCeil(FDiv(batches_needed, facility_count))
        fertilizer_time == IF item.requires_fertilizer
                           THEN FMul(fertilizer_time_per_unit, batches_needed)
                           ELSE F(0)
    IN  [ total_time |-> FAdd(FMul(time_per_batch, parallel_batches), fertilizer_time),
          total_energy |-> IF is_some(item.energy)
                           THEN Some(FMul(F(unwrap(item.energy)), batches_needed))
                           ELSE None,
          total_cost |-> FMul(F(unwrap_or(item.cost, 0)), batches_needed),
          raw_names |-> <<actual_name>>,
          primary_facility |-> Some(item.facility),
          all_facilities |-> {item.facility},
          intermediate_steps |-> <<>>,
          is_valid |-> TRUE,
          visited |-> visited \ {actual_name},
          calls |-> calls, selected |-> Some(actual_name), overflow |-> FALSE ]

\* The end of the recursive case, after the ingredient loop.
processed_requirements(item, actual_name, batches_needed, facility_counts, acc) ==
    LET processing_facility_count == F(get_count(facility_counts, item.facility))
        processing_time == FMul(F(item.production_time),
                                FCeil(FDiv(batches_needed, processing_facility_count)))
        total_energy ==
            IF is_some(item.energy)
            THEN Some(FAdd(unwrap_or(acc.total_ingredient_energy, F(0)),
                           FMul(F(unwrap(item.energy)), batches_needed)))
            ELSE acc.total_ingredient_energy
    IN  [ total_time |-> FAdd(acc.max_ingredient_time, processing_time),
          total_energy |-> total_energy,
          total_cost |-> acc.total_ingredient_cost,
          raw_names |-> acc.all_raw_names,
          primary_facility |-> acc.primary_facility,
          all_facilities |-> acc.all_facilities,
          intermediate_steps |-> acc.intermediate_steps,
          is_valid |-> TRUE,
          visited |-> acc.visited \ {actual_name},
          calls |-> acc.calls, selected |-> Some(actual_name), overflow |-> FALSE ]

\* One pass of the ingredient loop's body after the recursive call returned
\* valid: the accumulators with ingredient i merged in.
\* The merge with the ingredients' times added up instead of their maximum.
merge_ingredient_sum_time(acc, ingredient_reqs, raw_mat, ingredient_required_per_batch, env) ==
    LET mat_item == mat_item_lookup(raw_mat, env.item_map, env.facility_counts,
                                    env.module_levels)
        step == IF is_some(mat_item) /\ is_some(unwrap(mat_item).raw_materials)
                THEN << <<unwrap(mat_item).name, unwrap(mat_item).facility,
                          ingredient_required_per_batch>> >>
                ELSE <<>>
    IN  [ max_ingredient_time |->
              FAdd(acc.max_ingredient_time, ingredient_reqs.total_time),
          total_ingredient_energy |->
              add_energy(acc.total_ingredient_energy, ingredient_reqs.total_energy),
          total_ingredient_cost |->
              FAdd(acc.total_ingredient_cost, ingredient_reqs.total_cost),
          all_raw_names |-> acc.all_raw_names \o ingredient_reqs.raw_names,
          primary_facility |-> IF is_none(acc.primary_facility)
                               THEN ingredient_reqs.primary_facility
                               ELSE acc.primary_facility,
          all_facilities |-> acc.all_facilities \cup ingredient_reqs.all_facilities,
          intermediate_steps |->
              acc.intermediate_steps \o ingredient_reqs.intermediate_steps \o step,
          visited |-> ingredient_reqs.visited,
          calls |-> acc.calls \o ingredient_reqs.calls ]

merge_ingredient(acc, ingredient_reqs, raw_mat, ingredient_required_per_batch, env) ==
    LET mat_item == mat_item_lookup(raw_mat, env.item_map, env.facility_counts,
                                    env.module_levels)
        step == IF is_some(mat_item) /\ is_some(unwrap(mat_item).raw_materials)
                THEN << <<unwrap(mat_item).name, unwrap(mat_item).facility,
                          ingredient_required_per_batch>> >>
                ELSE <<>>
    IN  [ max_ingredient_time |->
              IF FGt(ingredient_reqs.total_time, acc.max_ingredient_time)
              THEN ingredient_reqs.total_time ELSE acc.max_ingredient_time,
          total_ingredient_energy |->
              add_energy(acc.total_ingredient_energy, ingredient_reqs.total_energy),
          total_ingredient_cost |->
              FAdd(acc.total_ingredient_cost, ingredient_reqs.total_cost),
          all_raw_names |-> acc.all_raw_names \o ingredient_reqs.raw_names,
          primary_facility |-> IF is_none(acc.primary_facility)
                               THEN ingredient_reqs.primary_facility
                               ELSE acc.primary_facility,
          all_facilities |-> acc.all_facilities \cup ingredient_reqs.all_facilities,
          intermediate_steps |->
              acc.intermediate_steps \o ingredient_reqs.intermediate_steps \o step,
          visited |-> ingredient_reqs.visited,
          calls |-> acc.calls \o ingredient_reqs.calls ]

required_amount_at(item, i) ==
    LET required_amounts == unwrap_or(item.required_amount, <<>>)
    IN  IF i <= Len(required_amounts) THEN required_amounts[i] ELSE 1

RECURSIVE calculate_item_requirements(_, _, _, _, _)
RECURSIVE ingredient_loop(_, _, _, _, _, _, _)
RECURSIVE ingredient_step(_, _, _, _, _, _, _, _)

\* The body of `for (i, raw_mat) in raw_mats.iter().enumerate()` once the
\* recursive call for ingredient i has returned ingredient_reqs.
ingredient_step(ingredient_reqs, i, acc, item, actual_name, batches_needed, env, depth) ==
    IF ingredient_reqs.overflow
    THEN stack_overflow(ingredient_reqs.visited, acc.calls \o ingredient_reqs.calls)
    ELSE IF ~ingredient_reqs.is_valid
    THEN [invalid_requirements(ingredient_reqs.visited \ {actual_name},
                               acc.calls \o ingredient_reqs.calls)
             EXCEPT !.selected = Some(actual_name)]
    ELSE ingredient_loop(i + 1,
                         merge_ingredient(acc, ingredient_reqs,
                                          unwrap(item.raw_materials)[i],
                                          required_amount_at(item, i), env),
                         item, actual_name, batches_needed, env, depth)

ingredient_loop(i, acc, item, actual_name, batches_needed, env, depth) ==
    IF i > Len(unwrap(item.raw_materials))
    THEN processed_requirements(item, actual_name, batches_needed,
                                env.facility_counts, acc)
    ELSE ingredient_step(
             calculate_item_requirements(
                 unwrap(item.raw_materials)[i],
                 FMul(F(required_amount_at(item, i)), batches_needed),
                 env, acc.visited, depth + 1),
             i, acc, item, actual_name, batches_needed, env, depth)

\* calculate_item_requirements(item_name, required_amount, item_map,
\*     facility_counts, module_levels, fertilizer_time_per_unit,
\*     nimbus_bed_count, visited); env bundles the five read-only arguments and
\* depth counts the nested calls.
calculate_item_requirements(item_name, required_amount, env, visited, depth) ==
    IF depth > StackLimit THEN stack_overflow(visited, <<item_name>>)
    ELSE IF cycle_guard(item_name, visited) THEN cycle_result(visited, <<item_name>>)
    ELSE
    LET sel == select_variant(item_name, env.item_map, env.facility_counts,
                              env.module_levels)
    IN  IF is_none(sel) THEN invalid_requirements(visited, <<item_name>>)
        ELSE
        LET item == unwrap(sel)[1]
            actual_name == unwrap(sel)[2]
        IN  IF ~gates_pass(item, env.facility_counts, env.module_levels,
                           env.nimbus_bed_count)
            THEN [invalid_requirements(visited, <<item_name>>)
                     EXCEPT !.selected = Some(actual_name)]
            ELSE IF is_some(item.raw_materials)
            THEN ingredient_loop(
                     1,
                     [ max_ingredient_time |-> F(0),
                       total_ingredient_energy |-> None,
                       total_ingredient_cost |-> F(0),
                       all_raw_names |-> <<>>,
                       primary_facility |-> None,
                       all_facilities |-> {item.facility},
                       intermediate_steps |-> <<>>,
                       visited |-> visited \cup {actual_name},
                       calls |-> <<item_name>> ],
                     item, actual_name,
                     FCeil(FDiv(required_amount, F(item.yield_amount))),
                     env, depth)
            ELSE raw_requirements(item, actual_name, required_amount,
                                  env.facility_counts, env.fertilizer_time_per_unit,
                                  visited \cup {actual_name}, <<item_name>>)

---------------------------------------------------------------------------
(* optimizer.rs: calculate_efficiencies *)

RECURSIVE join_names(_)
\* Vec<String>::join("+")
join_names(names) ==
    IF Len(names) = 0 THEN ""
    ELSE IF Len(names) = 1 THEN names[1]
    ELSE names[1] \o "+" \o join_names(Tail(names))

RECURSIVE dedup_names(_, _)
\* `filter(|n| seen.insert(n.clone()))`: the first occurrence of each name stays
dedup_names(names, seen) ==
    IF Len(names) = 0 THEN <<>>
    ELSE IF names[1] \in seen THEN dedup_names(Tail(names), seen)
    ELSE <<names[1]>> \o dedup_names(Tail(names), seen \cup {names[1]})

\* The filters without the currency filter.
efficiency_filters_any_currency(item, target_currency, facility_counts, module_levels, nimbus_bed_count) ==
    /\ can_produce(facility_counts, item.facility, item.facility_level)
    /\ module_ok(item, module_levels)
    /\ ~(item.requires_fertilizer /\ nimbus_bed_count = 0)

\* The four filters at the head of the loop over the catalog.
efficiency_filters(item, target_currency, facility_counts, module_levels, nimbus_bed_count) ==
    /\ can_produce(facility_counts, item.facility, item.facility_level)
    /\ module_ok(item, module_levels)
    /\ item.sell_currency = target_currency
    /\ ~(item.requires_fertilizer /\ nimbus_bed_count = 0)

\* fertilizer_time_per_unit, from the catalog entry named "fertilizer"
fertilizer_time(item_map, nimbus_bed_count) ==
    LET fertilizer_item == map_get(item_map, "fertilizer")
    IN  IF is_some(fertilizer_item)
        THEN FDiv(F(unwrap(fertilizer_item).production_time),
                  FMul(F(unwrap(fertilizer_item).yield_amount),
                       FMax(F(nimbus_bed_count), F(1))))
        ELSE F(0)

requirements_env(catalog, facility_counts, module_levels) ==
    LET item_map == build_item_map(catalog)
        nimbus_bed_count == get_count(facility_counts, "Nimbus Bed")
    IN  [ item_map |-> item_map,
          facility_counts |-> facility_counts,
          module_levels |-> module_levels,
          fertilizer_time_per_unit |-> fertilizer_time(item_map, nimbus_bed_count),
          nimbus_bed_count |-> nimbus_bed_count ]

\* The entry the steady-state rate of an ingredient is computed from.
rate_item_lookup(raw_mat, item_map, module_levels) ==
    LET hs == map_get(item_map, high_speed(raw_mat))
    IN  IF is_some(hs)
        THEN IF is_some(unwrap(hs).module_requirement)
             THEN IF module_ok(unwrap(hs), module_levels)
                  THEN hs
                  ELSE map_get(item_map, raw_mat)
             ELSE hs
        ELSE map_get(item_map, raw_mat)

RECURSIVE gathering_loop(_, _, _, _)
\* The second loop over raw_mats: the minimum supply rate and the collected
\* (name, amount_per_batch, time_per_batch, facility) details.
gathering_loop(i, item, env, acc) ==
    IF i > Len(unwrap(item.raw_materials)) THEN acc
    ELSE
    LET raw_mat == unwrap(item.raw_materials)[i]
        required_per_batch == required_amount_at(item, i)
        raw_item == rate_item_lookup(raw_mat, env.item_map, env.module_levels)
    IN  IF is_some(raw_item)
        THEN LET raw == unwrap(raw_item)
                 raw_facility_count == get_count(env.facility_counts, raw.facility)
                 units_per_second ==
                     FDiv(FMul(F(raw.yield_amount), F(raw_facility_count)),
                          F(raw.production_time))
                 batches_worth_per_second ==
                     FDiv(units_per_second, F(required_per_batch))
             IN  gathering_loop(i + 1, item, env,
                     [ gathering_batches_per_second |->
                           FMin(acc.gathering_batches_per_second,
                                batches_worth_per_second),
                       raw_material_details_collected |->
                           Append(acc.raw_material_details_collected,
                                  <<raw.name, required_per_batch,
                                    F(raw.production_time), raw.facility>>),
                       rate_items |-> Append(acc.rate_items, raw.name) ])
        ELSE gathering_loop(i + 1, item, env, acc)

\* The tail of the loop body: the ProductionEfficiency pushed for the item.
make_efficiency(item, total_time, steady_state_time, total_energy, raw_cost, requires_raw, raw_facility, all_facilities, intermediate_steps, raw_material_details, rate_items) ==
    LET net_profit == FSub(FMul(F(item.sell_value), F(item.yield_amount)), raw_cost)
        profit_per_second == IF FGt(steady_state_time, F(0))
                             THEN FDiv(net_profit, steady_state_time)
                             ELSE F(0)
        profit_per_energy ==
            IF is_some(total_energy)
            THEN Some(IF FGt(unwrap(total_energy), F(0))
                      THEN FDiv(net_profit, unwrap(total_energy))
                      ELSE F(0))
            ELSE None
    IN  [ item |-> item,
          profit_per_second |-> profit_per_second,
          profit_per_energy |-> profit_per_energy,
          total_time_per_unit |-> total_time,
          total_energy_per_unit |-> total_energy,
          requires_raw |-> requires_raw,
          raw_cost |-> raw_cost,
          raw_facility |-> raw_facility,
          all_facilities |-> all_facilities,
          intermediate_steps |-> intermediate_steps,
          startup_time |-> total_time,
          effective_profit_per_second |-> profit_per_second,
          raw_material_details |-> raw_material_details,
          \* not fields of ProductionEfficiency: the local steady_state_time and
          \* the entries the rates were computed from
          steady_state_time |-> steady_state_time,
          rate_items |-> rate_items ]

\* The efficiency of a processed item whose ingredients all resolved valid.
processed_efficiency(item, env, acc) ==
    LET processing_facility_count == F(get_count(env.facility_counts, item.facility))
        processing_time_per_mill == F(item.production_time)
        processing_time == FDiv(processing_time_per_mill, processing_facility_count)
        g == gathering_loop(1, item, env,
                 [ gathering_batches_per_second |-> INF,
                   raw_material_details_collected |-> <<>>,
                   rate_items |-> <<>> ])
        processing_batches_per_second ==
            FDiv(processing_facility_count, processing_time_per_mill)
        batches_per_second ==
            FMin(g.gathering_batches_per_second, processing_batches_per_second)
        steady_state_time ==
            IF FGt(batches_per_second, F(0)) /\ is_finite(batches_per_second)
            THEN FDiv(F(1), batches_per_second)
            ELSE INF
        total_time == FAdd(acc.max_ingredient_time, processing_time)
        total_energy ==
            IF is_some(item.energy)
            THEN Some(FAdd(unwrap_or(acc.total_ingredient_energy, F(0)),
                           F(unwrap(item.energy))))
            ELSE acc.total_ingredient_energy
        unique_raw_names == dedup_names(acc.all_raw_names, {})
        collected == g.raw_material_details_collected
        raw_details ==
            IF Len(collected) > 1
            THEN IF \A k \in DOMAIN collected : collected[k][4] = collected[1][4]
                 THEN Some([k \in DOMAIN collected |->
                               <<collected[k][1], collected[k][2], collected[k][3]>>])
                 ELSE None
            ELSE None
    IN  make_efficiency(item, total_time, steady_state_time, total_energy,
                        acc.total_ingredient_cost, Some(join_names(unique_raw_names)),
                        acc.primary_facility, acc.all_facilities,
                        acc.intermediate_steps, raw_details, g.rate_items)

\* The efficiency of a raw material.
raw_efficiency(item, env) ==
    LET facility_count == F(get_count(env.facility_counts, item.facility))
        time_per_batch == F(item.production_time)
        fertilizer_time_ == IF item.requires_fertilizer
                            THEN env.fertilizer_time_per_unit
                            ELSE F(0)
        effective_time_per_yield ==
            FDiv(FAdd(time_per_batch, fertilizer_time_),
                 FMul(F(item.yield_amount), facility_count))
        steady_state_time == FDiv(FAdd(time_per_batch, fertilizer_time_), facility_count)
        energy_per_batch == IF is_some(item.energy)
                            THEN Some(F(unwrap(item.energy))) ELSE None
        cost_per_batch == F(unwrap_or(item.cost, 0))
    IN  make_efficiency(item, effective_time_per_yield, steady_state_time,
                        energy_per_batch, cost_per_batch, None, None,
                        {item.facility}, <<>>, None, <<>>)

RECURSIVE efficiency_ingredients(_, _, _, _)
RECURSIVE efficiency_ingredient_step(_, _, _, _, _)

\* The first loop over raw_mats: each ingredient is resolved with a fresh
\* visited set.  The result is <<"skip">>, <<"overflow">> or <<"ok", acc>>.
efficiency_ingredient_step(reqs_, i, item, env, acc) ==
    IF reqs_.overflow THEN <<"overflow">>
    ELSE IF ~reqs_.is_valid THEN <<"skip">>
    ELSE efficiency_ingredients(i + 1, item, env,
             merge_ingredient(acc, reqs_, unwrap(item.raw_materials)[i],
                              required_amount_at(item, i), env))

efficiency_ingredients(i, item, env, acc) ==
    IF i > Len(unwrap(item.raw_materials)) THEN <<"ok", acc>>
    ELSE efficiency_ingredient_step(
             calculate_item_requirements(unwrap(item.raw_materials)[i],
                                         F(required_amount_at(item, i)),
                                         env, {}, 1),
             i, item, env, acc)

\* The efficiency of a processed item once the loop over its ingredients ended.
efficiency_after_ingredients(item, env, r) ==
    IF r[1] = "ok" THEN <<"ok", processed_efficiency(item, env, r[2])>> ELSE r

\* One pass of `for item in items`: <<"skip">>, <<"overflow">> or <<"ok", eff>>.
efficiency_of(item, target_currency, env) ==
    IF ~efficiency_filters(item, target_currency, env.facility_counts,
                           env.module_levels, env.nimbus_bed_count)
    THEN <<"skip">>
    ELSE IF is_some(item.raw_materials)
    THEN efficiency_after_ingredients(item, env,
             efficiency_ingredients(1, item, env,
                 [ max_ingredient_time |-> F(0),
                   total_ingredient_energy |-> None,
                   total_ingredient_cost |-> F(0),
                   all_raw_names |-> <<>>,
                   primary_facility |-> None,
                   all_facilities |-> {item.facility},
                   intermediate_steps |-> <<>>,
                   visited |-> {},
                   calls |-> <<>> ]))
    ELSE <<"ok", raw_efficiency(item, env)>>

RECURSIVE efficiencies_loop(_, _, _, _, _)
RECURSIVE efficiencies_push(_, _, _, _, _, _)
\* The end of one pass of `for item in items`: the push, the `continue` or the
\* stack overflow.
efficiencies_push(i, catalog, target_currency, env, efficiencies, e) ==
    IF e[1] = "overflow"
    THEN [overflow |-> TRUE, efficiencies |-> efficiencies]
    ELSE efficiencies_loop(i + 1, catalog, target_currency, env,
             IF e[1] = "ok" THEN Append(efficiencies, e[2]) ELSE efficiencies)

efficiencies_loop(i, catalog, target_currency, env, efficiencies) ==
    IF i > Len(catalog) THEN [overflow |-> FALSE, efficiencies |-> efficiencies]
    ELSE efficiencies_push(i, catalog, target_currency, env, efficiencies,
             efficiency_of(catalog[i], target_currency, env))

\* calculate_efficiencies(items, target_currency, facility_counts, module_levels):
\* the Vec it returns, or overflow when a resolver call ran out of stack.
calculate_efficiencies(catalog, target_currency, facility_counts, module_levels) ==
    efficiencies_loop(1, catalog, target_currency,
                      requirements_env(catalog, facility_counts, module_levels), <<>>)

---------------------------------------------------------------------------
(* optimizer.rs: calculate_optimal_facility_allocation                     *)
(* A material is <<name, batches, time_per_batch>>, its time a double; an   *)
(* active material is <<idx, batches, time>> with idx counted from 1.       *)

\* 1e-9, the tolerance of the dedup
DedupTolerance == DParse(1, 1000000000)

active_materials_of(materials) ==
    SelectSeq([i \in DOMAIN materials |-> <<i, materials[i][2], materials[i][3]>>],
              LAMBDA a : a[2] > 0 /\ DGt(a[3], DZero))

zero_allocation(materials) ==
    [i \in DOMAIN materials |-> <<materials[i][1], materials[i][2], 0>>]

\* (total_facilities as f64 * fraction).round() as u32
rounded_share(batches, total_batches, total_facilities) ==
    DRoundInt(DMulInt(total_facilities, DDiv(DInt(batches), DInt(total_batches))))

\* frac.min(remaining).max(1)
\* frac.min(remaining), without the floor of 1
clamp_share_no_floor(frac, remaining) ==
    IF frac < remaining THEN frac ELSE remaining

clamp_share(frac, remaining) ==
    IF (IF frac < remaining THEN frac ELSE remaining) > 1
    THEN (IF frac < remaining THEN frac ELSE remaining)
    ELSE 1

RECURSIVE distribute_loop(_, _, _, _, _, _)
RECURSIVE distribute_push(_, _, _, _, _, _, _)
\* The tail of the loop's body: alloc pushed and taken from the remaining.
distribute_push(i, materials, total_batches, total_facilities, remaining, result, alloc) ==
    distribute_loop(i + 1, materials, total_batches, total_facilities,
                    IF remaining > alloc THEN remaining - alloc ELSE 0,
                    Append(result, <<materials[i][1], materials[i][2], alloc>>))

distribute_loop(i, materials, total_batches, total_facilities, remaining, result) ==
    IF i > Len(materials) THEN result
    ELSE distribute_push(i, materials, total_batches, total_facilities, remaining,
             result,
             IF i = Len(materials) THEN remaining
             ELSE IF materials[i][2] > 0
             THEN clamp_share(rounded_share(materials[i][2], total_batches,
                                            total_facilities),
                              remaining)
             ELSE 0)

RECURSIVE sum_batches(_, _)
sum_batches(materials, i) ==
    IF i > Len(materials) THEN 0 ELSE materials[i][2] + sum_batches(materials, i + 1)

distribute_batches(materials, total_batches, total_facilities) ==
    IF total_batches = 0 THEN zero_allocation(materials)
    ELSE distribute_loop(1, materials, total_batches, total_facilities,
                         total_facilities, <<>>)

distribute_proportionally(materials, total_facilities) ==
    distribute_batches(materials, sum_batches(materials, 1), total_facilities)

\* The next k that gives a different ceil(batches / k).
next_k(batches, rounds) ==
    IF (batches \div (rounds - 1)) * (rounds - 1) < batches
    THEN (batches \div (rounds - 1)) + 1
    ELSE batches \div (rounds - 1)

RECURSIVE candidate_rounds(_, _, _, _)
\* `while k <= *batches`
candidate_rounds(k, batches, time, candidate_times) ==
    IF k > batches THEN candidate_times
    ELSE IF (batches + k - 1) \div k > 1
    THEN candidate_rounds(next_k(batches, (batches + k - 1) \div k), batches, time,
             Append(candidate_times, DMulInt((batches + k - 1) \div k, time)))
    ELSE Append(candidate_times, DMulInt((batches + k - 1) \div k, time))

RECURSIVE collect_candidates(_, _, _, _)
\* `for (_, batches, time) in &active_materials`
\* The push after the `while`: the time with all the facilities on one material.
push_all_facilities(candidate_times, batches, time, total_facilities) ==
    IF total_facilities > 0
    THEN Append(candidate_times,
                DMulInt((batches + total_facilities - 1) \div total_facilities, time))
    ELSE candidate_times

collect_candidates(i, active_materials, total_facilities, candidate_times) ==
    IF i > Len(active_materials) THEN candidate_times
    ELSE collect_candidates(i + 1, active_materials, total_facilities,
             IF active_materials[i][2] = 0 \/ DLe(active_materials[i][3], DZero)
             THEN candidate_times
             ELSE push_all_facilities(
                      candidate_rounds(1, active_materials[i][2],
                                       active_materials[i][3], candidate_times),
                      active_materials[i][2], active_materials[i][3],
                      total_facilities))

RECURSIVE insert_sorted(_, _)
insert_sorted(sorted, x) ==
    IF sorted = <<>> THEN <<x>>
    ELSE IF DLt(x, sorted[Len(sorted)])
         THEN Append(insert_sorted(SubSeq(sorted, 1, Len(sorted) - 1), x),
                     sorted[Len(sorted)])
         ELSE Append(sorted, x)

RECURSIVE sort_times(_, _, _)
\* `sort_by(|a, b| a.partial_cmp(b)..)`: a stable ascending sort
sort_times(times, i, sorted) ==
    IF i > Len(times) THEN sorted
    ELSE sort_times(times, i + 1, insert_sorted(sorted, times[i]))

RECURSIVE dedup_times(_, _, _)
\* `dedup_by(|a, b| (*a - *b).abs() < 1e-9)`: an element within the tolerance of
\* the last one kept is dropped
dedup_times(times, i, kept) ==
    IF i > Len(times) THEN kept
    ELSE IF kept # <<>> /\ DLt(DAbsDiff(times[i], kept[Len(kept)]), DedupTolerance)
         THEN dedup_times(times, i + 1, kept)
         ELSE dedup_times(times, i + 1, Append(kept, times[i]))

\* `(target_time / time).floor() as u32`
max_rounds_in(target_time, time) == DFloor(DDiv(target_time, time))

RECURSIVE is_time_feasible_from(_, _, _, _, _)
RECURSIVE is_time_feasible_with(_, _, _, _, _, _)
\* The body of the loop past `if *time <= 0.0 { continue; }`
is_time_feasible_with(i, target_time, active_materials, total_facilities, facilities_needed, max_rounds) ==
    IF max_rounds = 0 THEN FALSE
    ELSE IF facilities_needed + ((active_materials[i][2] + max_rounds - 1) \div max_rounds)
            > total_facilities
    THEN FALSE
    ELSE is_time_feasible_from(i + 1, target_time, active_materials, total_facilities,
             facilities_needed
             + ((active_materials[i][2] + max_rounds - 1) \div max_rounds))

is_time_feasible_from(i, target_time, active_materials, total_facilities, facilities_needed) ==
    IF i > Len(active_materials) THEN TRUE
    ELSE IF DLe(active_materials[i][3], DZero)
    THEN is_time_feasible_from(i + 1, target_time, active_materials,
                               total_facilities, facilities_needed)
    ELSE is_time_feasible_with(i, target_time, active_materials, total_facilities,
             facilities_needed,
             max_rounds_in(target_time, active_materials[i][3]))

is_time_feasible(target_time, active_materials, total_facilities) ==
    is_time_feasible_from(1, target_time, active_materials, total_facilities, 0)

RECURSIVE binary_search_loop(_, _, _, _, _)
\* lo and hi count from 0 as in the source
binary_search_loop(lo, hi, candidate_times, active_materials, total_facilities) ==
    IF lo >= hi THEN lo
    ELSE LET mid == lo + ((hi - lo) \div 2)
         IN  IF is_time_feasible(candidate_times[mid + 1], active_materials,
                                 total_facilities)
             THEN binary_search_loop(lo, mid, candidate_times, active_materials,
                                     total_facilities)
             ELSE binary_search_loop(mid + 1, hi, candidate_times, active_materials,
                                     total_facilities)

\* The return of binary_search_min_time for the lo the loop ended at.
time_at(candidate_times, lo) ==
    IF lo < Len(candidate_times) THEN candidate_times[lo + 1]
    ELSE candidate_times[Len(candidate_times)]

binary_search_min_time(candidate_times, active_materials, total_facilities) ==
    IF candidate_times = <<>> THEN DZero
    ELSE time_at(candidate_times,
                 binary_search_loop(0, Len(candidate_times), candidate_times,
                                    active_materials, total_facilities))

\* The facilities a material needs to finish within target_time.
facilities_for_rounds(batches, max_rounds) ==
    IF max_rounds = 0 THEN batches ELSE (batches + max_rounds - 1) \div max_rounds

min_facilities_for(batches, time, target_time) ==
    IF DLe(time, DZero) THEN 1
    ELSE facilities_for_rounds(batches, max_rounds_in(target_time, time))

RECURSIVE assign_minimum(_, _, _, _)
\* The two loops that fill `allocations` and copy it into `result`.
assign_minimum(i, active_materials, target_time, result) ==
    IF i > Len(active_materials) THEN result
    ELSE assign_minimum(i + 1, active_materials, target_time,
             [result EXCEPT ![active_materials[i][1]][3] =
                 min_facilities_for(active_materials[i][2], active_materials[i][3],
                                    target_time)])

RECURSIVE sum_allocated(_, _)
sum_allocated(result, i) ==
    IF i > Len(result) THEN 0 ELSE result[i][3] + sum_allocated(result, i + 1)

RECURSIVE best_improvement_from(_, _, _, _, _)
RECURSIVE best_improvement_with(_, _, _, _, _, _, _)
\* The comparison of one material's improvement with the best so far.
best_improvement_with(i, active_materials, result, best_improvement, best_idx, gains, improvement) ==
    IF gains /\ DGt(improvement, best_improvement)
    THEN best_improvement_from(i + 1, active_materials, result, improvement,
                               Some(active_materials[i][1]))
    ELSE best_improvement_from(i + 1, active_materials, result, best_improvement,
                               best_idx)

\* batches.div_ceil(facilities)
rounds_on(batches, facilities) == (batches + facilities - 1) \div facilities

\* The inner `for` of the greedy loop: Some(idx) of the material that gains most
\* from one more facility, None when none gains.
best_improvement_from(i, active_materials, result, best_improvement, best_idx) ==
    IF i > Len(active_materials) THEN best_idx
    ELSE IF result[active_materials[i][1]][3] = 0
    THEN best_improvement_from(i + 1, active_materials, result, best_improvement,
                               best_idx)
    ELSE best_improvement_with(i, active_materials, result, best_improvement,
             best_idx,
             rounds_on(active_materials[i][2], result[active_materials[i][1]][3] + 1)
             < rounds_on(active_materials[i][2], result[active_materials[i][1]][3]),
             DMulInt(rounds_on(active_materials[i][2],
                               result[active_materials[i][1]][3])
                     - rounds_on(active_materials[i][2],
                                 result[active_materials[i][1]][3] + 1),
                     active_materials[i][3]))

RECURSIVE distribute_remaining(_, _, _)
\* `while remaining > 0`
RECURSIVE give_facility(_, _, _, _)
\* The tail of the loop's body, for the best_idx the inner `for` found.
give_facility(result, active_materials, remaining, best_idx) ==
    IF is_some(best_idx)
    THEN distribute_remaining([result EXCEPT ![unwrap(best_idx)][3] = @ + 1],
                              active_materials, remaining - 1)
    ELSE IF active_materials # <<>>
    THEN [result EXCEPT ![active_materials[1][1]][3] = @ + remaining]
    ELSE result

distribute_remaining(result, active_materials, remaining) ==
    IF remaining = 0 THEN result
    ELSE give_facility(result, active_materials, remaining,
             best_improvement_from(1, active_materials, result, DZero, None))

\* total_facilities.saturating_sub(total_min)
saturating_sub(a, b) == IF a > b THEN a - b ELSE 0

\* calculate_allocation_for_time from `let total_min` on.
allocate_above_minimum(result, active_materials, total_facilities) ==
    distribute_remaining(result, active_materials,
                         saturating_sub(total_facilities, sum_allocated(result, 1)))

calculate_allocation_for_time(materials, active_materials, target_time, total_facilities) ==
    allocate_above_minimum(
        assign_minimum(1, active_materials, target_time, zero_allocation(materials)),
        active_materials, total_facilities)

\* calculate_optimal_facility_allocation from the candidate times on.
allocate_by_candidates(materials, active_materials, candidate_times, total_facilities) ==
    IF candidate_times = <<>>
    THEN [i \in DOMAIN materials |->
             <<materials[i][1], materials[i][2],
               IF i <= Len(active_materials) THEN 1 ELSE 0>>]
    ELSE calculate_allocation_for_time(
             materials, active_materials,
             binary_search_min_time(
                 dedup_times(sort_times(candidate_times, 1, <<>>), 1, <<>>),
                 active_materials, total_facilities),
             total_facilities)

\* calculate_optimal_facility_allocation from the active materials on.
allocate_active(materials, active_materials, total_facilities) ==
    IF active_materials = <<>> THEN zero_allocation(materials)
    ELSE IF Len(active_materials) > total_facilities
    THEN distribute_proportionally(materials, total_facilities)
    ELSE allocate_by_candidates(materials, active_materials,
             collect_candidates(1, active_materials, total_facilities, <<>>),
             total_facilities)

\* calculate_optimal_facility_allocation(materials, total_facilities): the list
\* of <<name, batches, facilities>>
\* The allocator without the early return for a single material.
calculate_optimal_facility_allocation_no_single(materials, total_facilities) ==
    IF materials = <<>> THEN <<>>
    ELSE IF total_facilities = 0 THEN zero_allocation(materials)
    ELSE allocate_active(materials, active_materials_of(materials), total_facilities)

calculate_optimal_facility_allocation(materials, total_facilities) ==
    IF materials = <<>> THEN <<>>
    ELSE IF total_facilities = 0 THEN zero_allocation(materials)
    ELSE IF Len(materials) = 1
    THEN << <<materials[1][1], materials[1][2], total_facilities>> >>
    ELSE allocate_active(materials, active_materials_of(materials), total_facilities)

---------------------------------------------------------------------------
(* optimizer.rs: the planners.  A ProductionStep and a ProductionPath are   *)
(* records with the fields of the structs; a step's facility_allocation is  *)
(* the allocator's result, computed on doubles.                             *)

\* format!("{} (x{})", facility, count)
format_facility(facility, count) == facility \o " (x" \o ToString(count) \o ")"

\* The double of a finite non-negative f64 of the planners.
to_double(x) == DParse(x[1], x[2])

RECURSIVE sum_amounts(_, _)
\* amounts.iter().sum::<u32>()
sum_amounts(amounts, i) ==
    IF i > Len(amounts) THEN 0 ELSE amounts[i] + sum_amounts(amounts, i + 1)

\* b.partial_cmp(a).unwrap_or(Equal) = Less: a sorts before b
sorts_before(a_key, b_key) == FLt(b_key, a_key)

RECURSIVE insert_by_key(_, _)
\* One insertion of the stable sort on <<key, element>> pairs: x goes behind
\* every pair it does not sort before.
insert_by_key(sorted, x) ==
    IF Len(sorted) = 0 THEN <<x>>
    ELSE IF sorts_before(x[1], sorted[Len(sorted)][1])
    THEN Append(insert_by_key(SubSeq(sorted, 1, Len(sorted) - 1), x),
                sorted[Len(sorted)])
    ELSE Append(sorted, x)

RECURSIVE sort_pairs(_, _, _)
sort_pairs(pairs, i, sorted) ==
    IF i > Len(pairs) THEN sorted
    ELSE sort_pairs(pairs, i + 1, insert_by_key(sorted, pairs[i]))

\* sorted.sort_by(|a, b| key(b).partial_cmp(key(a)).unwrap_or(Equal)), with
\* keys[i] the key of list[i]
sort_by_key(list, keys) ==
    LET sorted == sort_pairs([k \in DOMAIN list |-> <<keys[k], list[k]>>], 1, <<>>)
    IN  [k \in DOMAIN sorted |-> sorted[k][2]]

\* The Step pushed by the planners.
Step(item_name, facility, quantity, time, energy, profit_contribution, chain_id, facility_allocation) ==
    [ item_name |-> item_name, facility |-> facility, quantity |-> quantity,
      time |-> time, energy |-> energy,
      profit_contribution |-> profit_contribution, chain_id |-> chain_id,
      facility_allocation |-> facility_allocation ]

\* The key find_best_production_path sorts by, descending.
best_sort_key(eff, optimize_energy, energy_cost_per_min) ==
    IF optimize_energy THEN unwrap_or(eff.profit_per_energy, F(0))
    ELSE LET energy_cost ==
                 FDiv(FMul(unwrap_or(eff.total_energy_per_unit, F(0)),
                           energy_cost_per_min), F(60))
         IN  FSub(eff.effective_profit_per_second,
                  FDiv(energy_cost, FMax(eff.total_time_per_unit, F(1))))

\* best.item.sell_value * best.item.yield_amount as f64 - best.raw_cost
profit_per_unit_of(eff) ==
    FSub(FMul(F(eff.item.sell_value), F(eff.item.yield_amount)), eff.raw_cost)

\* if allocation.len() > 1 { Some(allocation) } else { None }
if_many(allocation_) == IF Len(allocation_) > 1 THEN Some(allocation_) ELSE None

\* The facility_allocation of a raw-material step: the allocator's result for
\* the details scaled by the batches, kept only when it has two entries or more.
allocation_for(eff, batches, raw_facility_count) ==
    IF is_some(eff.raw_material_details)
    THEN LET details == unwrap(eff.raw_material_details)
             materials_for_allocation ==
                 [k \in DOMAIN details |->
                     <<details[k][1], details[k][2] * batches, to_double(details[k][3])>>]
         IN  if_many(calculate_optimal_facility_allocation(
                         materials_for_allocation, raw_facility_count))
    ELSE None

\* The steps of a processed chain with a profit of 1 on the raw-material step.
ingredient_steps_raw_profit(eff, batches, facility_counts, raw_facility, time, chain_id) ==
    LET raw_amount_needed ==
            (IF is_some(eff.item.required_amount)
             THEN sum_amounts(unwrap(eff.item.required_amount), 1) ELSE 1) * batches
        raw_facility_count == get_count(facility_counts, raw_facility)
    IN  << Step(unwrap(eff.requires_raw),
                format_facility(raw_facility, raw_facility_count),
                raw_amount_needed, time, None, F(1), chain_id,
                allocation_for(eff, batches, raw_facility_count)) >>
        \o [k \in DOMAIN eff.intermediate_steps |->
               Step(eff.intermediate_steps[k][1],
                    format_facility(eff.intermediate_steps[k][2],
                        get_count(facility_counts, eff.intermediate_steps[k][2])),
                    eff.intermediate_steps[k][3] * batches, time, None, F(0),
                    chain_id, None)]

\* The raw-material step and the intermediate steps of a processed chain.
ingredient_steps(eff, batches, facility_counts, raw_facility, time, chain_id) ==
    LET raw_amount_needed ==
            (IF is_some(eff.item.required_amount)
             THEN sum_amounts(unwrap(eff.item.required_amount), 1) ELSE 1) * batches
        raw_facility_count == get_count(facility_counts, raw_facility)
    IN  << Step(unwrap(eff.requires_raw),
                format_facility(raw_facility, raw_facility_count),
                raw_amount_needed, time, None, F(0), chain_id,
                allocation_for(eff, batches, raw_facility_count)) >>
        \o [k \in DOMAIN eff.intermediate_steps |->
               Step(eff.intermediate_steps[k][1],
                    format_facility(eff.intermediate_steps[k][2],
                        get_count(facility_counts, eff.intermediate_steps[k][2])),
                    eff.intermediate_steps[k][3] * batches, time, None, F(0),
                    chain_id, None)]

\* The steady-state time per batch times the batches, for every item.
best_total_time_steady_state(best, units_needed, profit_per_unit, main_facility_count) ==
    FMul(best.steady_state_time, F(units_needed))

\* let total_time = if best.requires_raw.is_some() { .. } else { .. }
best_total_time(best, units_needed, profit_per_unit, main_facility_count) ==
    IF is_some(best.requires_raw)
    THEN FDiv(FMul(F(units_needed), profit_per_unit),
              best.effective_profit_per_second)
    ELSE FMul(F(best.item.production_time),
              FCeil(FDiv(F(units_needed), F(main_facility_count))))

\* The ProductionPath find_best_production_path builds for the best option.
best_path(best, target_amount, facility_counts) ==
    LET profit_per_unit == profit_per_unit_of(best)
        units_needed == AsU32(FCeil(FDiv(target_amount, profit_per_unit)))
        main_facility_count == get_count(facility_counts, best.item.facility)
        production_step ==
            Step(best.item.name,
                 format_facility(best.item.facility, main_facility_count),
                 units_needed,
                 FMul(best.total_time_per_unit, F(units_needed)),
                 IF is_some(best.total_energy_per_unit)
                 THEN Some(FMul(unwrap(best.total_energy_per_unit), F(units_needed)))
                 ELSE None,
                 FMul(profit_per_unit, F(units_needed)), None, None)
        steps == (IF is_some(best.requires_raw)
                  THEN ingredient_steps(best, units_needed, facility_counts,
                           unwrap_or(best.raw_facility, "Unknown"), F(0), None)
                  ELSE <<>>) \o <<production_step>>
        total_time == best_total_time(best, units_needed, profit_per_unit,
                                      main_facility_count)
    IN  [ steps |-> steps,
          total_time |-> FAdd(total_time, best.startup_time),
          startup_time |-> best.startup_time,
          total_energy |-> IF is_some(best.total_energy_per_unit)
                           THEN Some(FMul(unwrap(best.total_energy_per_unit),
                                          F(units_needed)))
                           ELSE None,
          total_profit |-> FMul(profit_per_unit, F(units_needed)),
          currency |-> best.item.sell_currency,
          items_produced |-> units_needed * best.item.yield_amount,
          is_energy_self_sufficient |-> FALSE,
          energy_items_produced |-> None,
          energy_item_name |-> None ]

\* find_best_production_path without its early return: an empty list of
\* efficiencies gives a plan of no steps.
find_best_production_path_empty_plan(efficiencies, target_amount, optimize_energy, energy_cost_per_min, facility_counts) ==
    IF Len(efficiencies) = 0
    THEN Some([ steps |-> <<>>, total_time |-> F(0), startup_time |-> F(0),
                total_energy |-> None, total_profit |-> F(0), currency |-> "",
                items_produced |-> 0, is_energy_self_sufficient |-> FALSE,
                energy_items_produced |-> None, energy_item_name |-> None ])
    ELSE Some(best_path(
             sort_by_key(efficiencies,
                 [k \in DOMAIN efficiencies |->
                     best_sort_key(efficiencies[k], optimize_energy,
                                   energy_cost_per_min)])[1],
             target_amount, facility_counts))

\* find_best_production_path(efficiencies, target_amount, optimize_energy,
\* energy_cost_per_min, facility_counts): None, or Some(path)
find_best_production_path(efficiencies, target_amount, optimize_energy, energy_cost_per_min, facility_counts) ==
    IF Len(efficiencies) = 0 THEN None
    ELSE LET keys == [k \in DOMAIN efficiencies |->
                         best_sort_key(efficiencies[k], optimize_energy,
                                       energy_cost_per_min)]
             sorted == sort_by_key(efficiencies, keys)
         IN  Some(best_path(sorted[1], target_amount, facility_counts))

\* The three `continue`s at the head of the greedy loop's body.
selectable(eff, facility_counts) ==
    /\ ~FLe(eff.effective_profit_per_second, F(0))
    /\ get_count(facility_counts, eff.item.facility) # 0
    /\ is_some(eff.raw_facility) =>
           get_count(facility_counts, unwrap(eff.raw_facility)) # 0

\* get_facilities_used(eff)
get_facilities_used(eff) == eff.all_facilities

\* occupied_facilities.insert(eff.item.facility): the primary facility alone
claim_primary_only(occupied_facilities, eff) ==
    occupied_facilities \cup {eff.item.facility}

\* occupied_facilities.extend(facilities_needed)
claim_facilities(occupied_facilities, eff) ==
    occupied_facilities \cup get_facilities_used(eff)

\* facilities_needed.iter().any(|f| occupied_facilities.contains(f))
has_conflict(eff, occupied_facilities) ==
    \E f \in get_facilities_used(eff) : f \in occupied_facilities

\* One pass of `for eff in &sorted_effs`.
select_step(sel, facility_counts) ==
    LET eff == sel.sorted_effs[sel.next]
        take == selectable(eff, facility_counts)
                /\ ~has_conflict(eff, sel.occupied_facilities)
    IN  [ sorted_effs |-> sel.sorted_effs,
          next |-> sel.next + 1,
          target_amount |-> sel.target_amount,
          selected_items |-> IF take THEN Append(sel.selected_items, eff)
                             ELSE sel.selected_items,
          occupied_facilities |->
              IF take THEN claim_facilities(sel.occupied_facilities, eff)
              ELSE sel.occupied_facilities ]

\* The state of the greedy loop before its first pass.
select_start(efficiencies, target_amount) ==
    [ sorted_effs |->
          sort_by_key(efficiencies,
              [k \in DOMAIN efficiencies |->
                  efficiencies[k].effective_profit_per_second]),
      next |-> 1,
      target_amount |-> target_amount,
      selected_items |-> <<>>,
      occupied_facilities |-> {} ]

RECURSIVE sum_rates(_, _)
sum_rates(selected_items, i) ==
    IF i > Len(selected_items) THEN F(0)
    ELSE FAdd(selected_items[i].effective_profit_per_second,
              sum_rates(selected_items, i + 1))

RECURSIVE fold_max(_, _, _)
\* values.fold(0.0, f64::max)
fold_max(values, i, acc) ==
    IF i > Len(values) THEN acc ELSE fold_max(values, i + 1, FMax(acc, values[i]))

\* The batches of one chain over the theoretical time.
chain_batches(eff, theoretical_time, facility_counts) ==
    IF is_some(eff.requires_raw)
    THEN AsU32(FCeil(FDiv(FMul(theoretical_time, eff.effective_profit_per_second),
                          profit_per_unit_of(eff))))
    ELSE LET facility_count == F(get_count(facility_counts, eff.item.facility))
             time_per_effective_batch ==
                 FDiv(F(eff.item.production_time), facility_count)
         IN  AsU32(FCeil(FDiv(theoretical_time, time_per_effective_batch)))

\* One pass of `for eff in &selected_items` with batches > 0: the chain's steps
\* pushed and the totals advanced.
push_chain(acc, eff, batches, current_chain_id, facility_counts) ==
    LET profit_per_batch == profit_per_unit_of(eff)
        step_profit == FMul(profit_per_batch, F(batches))
        step_time ==
            IF is_some(eff.requires_raw)
            THEN FMul(F(batches),
                      FDiv(profit_per_batch, eff.effective_profit_per_second))
            ELSE FMul(F(eff.item.production_time),
                      FCeil(FDiv(F(batches),
                                 F(get_count(facility_counts, eff.item.facility)))))
        energy_ == IF is_some(eff.total_energy_per_unit)
                   THEN Some(FMul(unwrap(eff.total_energy_per_unit), F(batches)))
                   ELSE None
    IN  [ steps |->
              acc.steps
              \o (IF is_some(eff.requires_raw)
                  THEN ingredient_steps(eff, batches, facility_counts,
                           unwrap_or(eff.raw_facility, eff.item.facility),
                           step_time, Some(current_chain_id))
                  ELSE <<>>)
              \o << Step(eff.item.name,
                         format_facility(eff.item.facility,
                             get_count(facility_counts, eff.item.facility)),
                         batches, step_time, energy_, step_profit,
                         Some(current_chain_id), None) >>,
          total_profit |-> FAdd(acc.total_profit, step_profit),
          total_energy |-> IF is_some(energy_)
                           THEN Some(FAdd(unwrap_or(acc.total_energy, F(0)),
                                          unwrap(energy_)))
                           ELSE acc.total_energy,
          total_items |-> acc.total_items + batches * eff.item.yield_amount ]

\* The pass with every chain given the chain_id 0.
push_if_batches_one_chain_id(acc, eff, batches, current_chain_id, facility_counts) ==
    IF batches = 0 THEN acc
    ELSE push_chain(acc, eff, batches, 0, facility_counts)

\* if batches == 0 { continue; }
push_if_batches(acc, eff, batches, current_chain_id, facility_counts) ==
    IF batches = 0 THEN acc
    ELSE push_chain(acc, eff, batches, current_chain_id, facility_counts)

RECURSIVE build_steps(_, _, _, _, _)
\* for eff in &selected_items, chain_id counted from 0
build_steps(i, selected_items, theoretical_time, facility_counts, acc) ==
    IF i > Len(selected_items) THEN acc
    ELSE build_steps(i + 1, selected_items, theoretical_time, facility_counts,
             push_if_batches(acc, selected_items[i],
                 chain_batches(selected_items[i], theoretical_time, facility_counts),
                 i - 1, facility_counts))

\* a.profit_contribution / a.time
step_rate(step) == FDiv(step.profit_contribution, step.time)

RECURSIVE max_by_rate(_, _, _)
\* .filter(profit_contribution > 0.0).max_by(rate): the fold keeps the later
\* step unless the earlier one compares Greater. best is an Option<index>.
max_by_rate(steps, i, best) ==
    IF i > Len(steps) THEN best
    ELSE IF ~FGt(steps[i].profit_contribution, F(0))
    THEN max_by_rate(steps, i + 1, best)
    ELSE IF is_some(best) /\ FGt(step_rate(steps[unwrap(best)]), step_rate(steps[i]))
    THEN max_by_rate(steps, i + 1, best)
    ELSE max_by_rate(steps, i + 1, Some(i))

\* The body of the top-up loop for the step at idx.
add_one_batch(steps, idx) ==
    LET profit_per_batch ==
            FDiv(steps[idx].profit_contribution, F(steps[idx].quantity))
    IN  [k \in DOMAIN steps |->
            IF k = idx
            THEN [steps[k] EXCEPT
                     !.quantity = @ + 1,
                     !.profit_contribution = FAdd(@, profit_per_batch)]
            ELSE steps[k]]

RECURSIVE top_up(_, _, _)
\* while total_profit < target_amount { .. }: <<steps, total_profit>>
RECURSIVE top_up_step(_, _, _, _)
\* if let Some(idx) = best_step_idx { .. } else { break; }
top_up_step(steps, total_profit, target_amount, best_step_idx) ==
    IF is_some(best_step_idx)
    THEN top_up(add_one_batch(steps, unwrap(best_step_idx)),
                FAdd(total_profit,
                     FDiv(steps[unwrap(best_step_idx)].profit_contribution,
                          F(steps[unwrap(best_step_idx)].quantity))),
                target_amount)
    ELSE <<steps, total_profit>>

top_up(steps, total_profit, target_amount) ==
    IF ~FLt(total_profit, target_amount) THEN <<steps, total_profit>>
    ELSE top_up_step(steps, total_profit, target_amount, max_by_rate(steps, 1, None))

\* steps.iter().filter(|s| s.profit_contribution > 0.0).count()
production_count(steps) ==
    Cardinality({k \in DOMAIN steps : FGt(steps[k].profit_contribution, F(0))})

\* A ProductionPath whose total_profit is the profit of the last chain alone
parallel_path_last_chain(steps, total_profit, startup_time, total_energy, total_items, currency) ==
    [ steps |-> steps,
      total_time |-> FAdd(fold_max([k \in DOMAIN steps |-> steps[k].time], 1, F(0)),
                          startup_time),
      startup_time |-> startup_time,
      total_energy |-> total_energy,
      total_profit |-> steps[Len(steps)].profit_contribution,
      currency |-> currency,
      items_produced |-> total_items,
      is_energy_self_sufficient |-> FALSE,
      energy_items_produced |-> None,
      energy_item_name |-> None ]

\* The ProductionPath find_parallel_production_path returns.
parallel_path(steps, total_profit, startup_time, total_energy, total_items, currency) ==
    [ steps |-> steps,
      total_time |-> FAdd(fold_max([k \in DOMAIN steps |-> steps[k].time], 1, F(0)),
                          startup_time),
      startup_time |-> startup_time,
      total_energy |-> total_energy,
      total_profit |-> total_profit,
      currency |-> currency,
      items_produced |-> total_items,
      is_energy_self_sufficient |-> FALSE,
      energy_items_produced |-> None,
      energy_item_name |-> None ]

\* find_parallel_production_path from the end of the greedy loop on.
\* find_parallel_production_path from `let production_count` on.
plan_topped(topped, startup_time, total_energy, total_items, currency) ==
    IF production_count(topped[1]) <= 1 THEN None
    ELSE Some(parallel_path(topped[1], topped[2], startup_time, total_energy,
                            total_items, currency))

\* find_parallel_production_path from the top-up loop on.
plan_built(built, target_amount, startup_time, currency) ==
    plan_topped(top_up(built.steps, built.total_profit, target_amount),
                startup_time, built.total_energy, built.total_items, currency)

plan_selected(selected_items, target_amount, facility_counts) ==
    IF Len(selected_items) <= 1 THEN None
    ELSE plan_built(
             build_steps(1, selected_items,
                 FDiv(target_amount, sum_rates(selected_items, 1)),
                 facility_counts,
                 [ steps |-> <<>>, total_profit |-> F(0),
                   total_energy |-> None, total_items |-> 0 ]),
             target_amount,
             fold_max([k \in DOMAIN selected_items |->
                          selected_items[k].startup_time], 1, F(0)),
             selected_items[1].item.sell_currency)

\* The filters of calculate_energy_efficiencies and the entry pushed for an
\* item that passes them, as an Option.
energy_efficiency_of(item, facility_counts, module_levels) ==
    IF is_some(item.raw_materials) THEN None
    ELSE IF ~(is_some(item.energy) /\ unwrap(item.energy) > 0) THEN None
    ELSE IF ~can_produce(facility_counts, item.facility, item.facility_level) THEN None
    ELSE IF ~module_ok(item, module_levels) THEN None
    ELSE LET facility_count == F(get_count(facility_counts, item.facility))
             time_per_batch == FDiv(F(item.production_time), facility_count)
             energy_per_batch == F(unwrap(item.energy))
         IN  Some([ item |-> item,
                    energy_per_second |-> FDiv(energy_per_batch, time_per_batch),
                    time_per_batch |-> time_per_batch,
                    energy_per_batch |-> energy_per_batch,
                    cost_per_batch |-> F(unwrap_or(item.cost, 0)) ])

RECURSIVE energy_efficiencies_loop(_, _, _, _, _)
energy_efficiencies_loop(i, catalog, facility_counts, module_levels, efficiencies) ==
    IF i > Len(catalog) THEN efficiencies
    ELSE energy_efficiencies_loop(i + 1, catalog, facility_counts, module_levels,
             efficiencies \o energy_efficiency_of(catalog[i], facility_counts,
                                                  module_levels))

\* calculate_energy_efficiencies(items, facility_counts, module_levels)
calculate_energy_efficiencies(catalog, facility_counts, module_levels) ==
    LET efficiencies ==
            energy_efficiencies_loop(1, catalog, facility_counts, module_levels, <<>>)
    IN  sort_by_key(efficiencies,
            [k \in DOMAIN efficiencies |-> efficiencies[k].energy_per_second])

\* The bound of the safety check in the energy loop
MaxEnergyBatches == 10000

\* energy_produced > energy_needed, the strict comparison
energy_exceeds(energy_batches, loop) ==
    LET rounds == FCeil(FDiv(F(energy_batches), loop.energy_facility_count))
        actual_energy_time == FMul(loop.production_time_per_batch, rounds)
        total_time == FAdd(loop.time_for_profit, actual_energy_time)
        energy_needed == FMul(total_time, loop.energy_rate)
        energy_produced == FMul(F(energy_batches), loop.energy_per_batch)
    IN  FGt(energy_produced, energy_needed)

\* energy_produced >= energy_needed for energy_batches in one pass of the loop
energy_suffices(energy_batches, loop) ==
    LET rounds == FCeil(FDiv(F(energy_batches), loop.energy_facility_count))
        actual_energy_time == FMul(loop.production_time_per_batch, rounds)
        total_time == FAdd(loop.time_for_profit, actual_energy_time)
        energy_needed == FMul(total_time, loop.energy_rate)
        energy_produced == FMul(F(energy_batches), loop.energy_per_batch)
    IN  FGe(energy_produced, energy_needed)

\* One pass of `loop { .. }` at energy_batches: <<"break", b>> when the pass
\* broke at b, <<"none">> when the safety check returned None, and <<"more", b>>
\* when the loop goes on with b.
energy_pass(energy_batches, loop) ==
    IF energy_suffices(energy_batches, loop) THEN <<"break", energy_batches>>
    ELSE IF energy_batches + 1 > MaxEnergyBatches THEN <<"none">>
    ELSE <<"more", energy_batches + 1>>

RECURSIVE energy_passes(_, _, _)
RECURSIVE energy_passes_after(_, _, _)
\* The n passes that follow the passes that ended with r.
energy_passes_after(r, loop, n) ==
    IF r[1] = "more" THEN energy_passes(r[2], loop, n) ELSE r

\* n passes of `loop { .. }` from energy_batches, n >= 1: the first half of
\* them, then the rest.
energy_passes(energy_batches, loop, n) ==
    IF n = 1 THEN energy_pass(energy_batches, loop)
    ELSE energy_passes_after(energy_passes(energy_batches, loop, n \div 2),
                             loop, n - (n \div 2))

\* let mut energy_batches = 1; loop { .. }: the loop leaves within
\* MaxEnergyBatches passes.
energy_loop(energy_batches, loop) ==
    energy_passes(energy_batches, loop, MaxEnergyBatches)

\* energy_production_rate < energy_rate, the strict comparison
cannot_sustain_strict(energy_production_rate, energy_rate) ==
    FLt(energy_production_rate, energy_rate)

\* energy_production_rate <= energy_rate
cannot_sustain(energy_production_rate, energy_rate) ==
    FLe(energy_production_rate, energy_rate)

\* The ProductionPath find_self_sufficient_path builds once the loop broke.
self_sufficient_path(best_profit, best_energy, batches_for_profit, time_for_profit, energy_batches, energy_rate, facility_counts) ==
    LET profit_per_batch == profit_per_unit_of(best_profit)
        energy_facility_count == F(get_count(facility_counts, best_energy.item.facility))
        energy_rounds == FCeil(FDiv(F(energy_batches), energy_facility_count))
        actual_energy_production_time ==
            FMul(F(best_energy.item.production_time), energy_rounds)
        total_time == FAdd(time_for_profit, actual_energy_production_time)
        total_energy_needed == FMul(total_time, energy_rate)
        energy_step ==
            Step(best_energy.item.name \o " (for energy)",
                 format_facility(best_energy.item.facility,
                     get_count(facility_counts, best_energy.item.facility)),
                 energy_batches, actual_energy_production_time,
                 Some(FMul(F(energy_batches), best_energy.energy_per_batch)),
                 FNeg(FMul(F(energy_batches), best_energy.cost_per_batch)),
                 None, None)
        profit_step ==
            Step(best_profit.item.name \o " (for profit)",
                 format_facility(best_profit.item.facility,
                     get_count(facility_counts, best_profit.item.facility)),
                 AsU32(batches_for_profit), time_for_profit, None,
                 FMul(profit_per_batch, batches_for_profit), None, None)
        energy_seed_cost == FMul(F(energy_batches), best_energy.cost_per_batch)
        gross_profit == FMul(profit_per_batch, batches_for_profit)
        startup_time == FMax(best_profit.startup_time,
                             F(best_energy.item.production_time))
    IN  [ steps |->
              <<energy_step>>
              \o (IF is_some(best_profit.requires_raw)
                  THEN ingredient_steps(best_profit, AsU32(batches_for_profit),
                           facility_counts,
                           unwrap_or(best_profit.raw_facility, "Unknown"),
                           F(0), None)
                  ELSE <<>>)
              \o <<profit_step>>,
          total_time |-> FAdd(total_time, startup_time),
          startup_time |-> startup_time,
          total_energy |-> Some(total_energy_needed),
          total_profit |-> FSub(gross_profit, energy_seed_cost),
          currency |-> best_profit.item.sell_currency,
          items_produced |-> AsU32(batches_for_profit) * best_profit.item.yield_amount,
          is_energy_self_sufficient |-> TRUE,
          energy_items_produced |-> Some(energy_batches * best_energy.item.yield_amount),
          energy_item_name |-> Some(best_energy.item.name) ]

\* find_self_sufficient_path past its three early returns.
self_sufficient_plan(profit_efficiencies, energy_efficiencies, target_amount, energy_cost_per_min, facility_counts) ==
    LET sorted_profit ==
            sort_by_key(profit_efficiencies,
                [k \in DOMAIN profit_efficiencies |->
                    profit_efficiencies[k].effective_profit_per_second])
        best_profit == sorted_profit[1]
        best_energy == energy_efficiencies[1]
        profit_per_batch == profit_per_unit_of(best_profit)
        profit_facility_count == F(get_count(facility_counts, best_profit.item.facility))
        energy_facility_count == F(get_count(facility_counts, best_energy.item.facility))
        energy_rate == FDiv(energy_cost_per_min, F(60))
        energy_production_rate == FMul(best_energy.energy_per_second, energy_facility_count)
        batches_for_profit == FCeil(FDiv(target_amount, profit_per_batch))
        time_for_profit ==
            IF is_some(best_profit.requires_raw)
            THEN FDiv(FMul(best_profit.total_time_per_unit, batches_for_profit),
                      profit_facility_count)
            ELSE FMul(F(best_profit.item.production_time),
                      FCeil(FDiv(batches_for_profit, profit_facility_count)))
        broke == energy_loop(1,
                     [ time_for_profit |-> time_for_profit,
                       production_time_per_batch |-> F(best_energy.item.production_time),
                       energy_facility_count |-> energy_facility_count,
                       energy_rate |-> energy_rate,
                       energy_per_batch |-> best_energy.energy_per_batch ])
    IN  IF cannot_sustain(energy_production_rate, energy_rate) THEN None
        ELSE IF broke[1] = "none" THEN None
        ELSE Some(self_sufficient_path(best_profit, best_energy, batches_for_profit,
                      time_for_profit, broke[2], energy_rate, facility_counts))

\* find_self_sufficient_path(profit_efficiencies, energy_efficiencies,
\* target_amount, energy_cost_per_min, facility_counts)
find_self_sufficient_path(profit_efficiencies, energy_efficiencies, target_amount, energy_cost_per_min, facility_counts) ==
    IF Len(profit_efficiencies) = 0 THEN None
    ELSE IF FLe(energy_cost_per_min, F(0))
    THEN find_best_production_path(profit_efficiencies, target_amount, FALSE,
                                   F(0), facility_counts)
    ELSE IF Len(energy_efficiencies) = 0 THEN None
    ELSE self_sufficient_plan(profit_efficiencies, energy_efficiencies,
                              target_amount, energy_cost_per_min, facility_counts)

---------------------------------------------------------------------------
(* The catalogs, inventories and module levels the resolver runs are drawn from *)

\* ProductionItem; the numbers of an entry are those of its name's row below.
facility_of(name) ==
    CASE name \in {"a", "high_speed_a", "d"} -> "Farmland"
      [] name = "b" -> "Carousel Mill"
      [] name = "c" -> "Woodland"
      [] name = "e" -> "Jukebox Dryer"
      [] OTHER -> "Nimbus Bed"

numbers_of(name) ==
    CASE name = "a" ->
            [cost |-> Some(2), sell_value |-> 1, production_time |-> 90,
             yield_amount |-> 10, energy |-> Some(8)]
      [] name = "high_speed_a" ->
            [cost |-> Some(3), sell_value |-> 1, production_time |-> 60,
             yield_amount |-> 20, energy |-> Some(8)]
      [] name = "b" ->
            [cost |-> None, sell_value |-> 40, production_time |-> 50,
             yield_amount |-> 1, energy |-> None]
      [] name = "c" ->
            [cost |-> Some(1), sell_value |-> 3, production_time |-> 120,
             yield_amount |-> 4, energy |-> Some(5)]
      [] name = "d" ->
            [cost |-> Some(30), sell_value |-> 2, production_time |-> 40,
             yield_amount |-> 5, energy |-> None]
      [] name = "e" ->
            [cost |-> None, sell_value |-> 5, production_time |-> 30,
             yield_amount |-> 1, energy |-> None]
      [] OTHER ->
            [cost |-> None, sell_value |-> 0, production_time |-> 1800,
             yield_amount |-> 30, energy |-> None]

MkItem(name, raw_materials, required_amount, facility_level, module_requirement, requires_fertilizer, sell_currency) ==
    [ name |-> name,
      facility |-> facility_of(name),
      raw_materials |-> raw_materials,
      required_amount |-> required_amount,
      cost |-> numbers_of(name).cost,
      sell_currency |-> sell_currency,
      sell_value |-> numbers_of(name).sell_value,
      production_time |-> numbers_of(name).production_time,
      yield_amount |-> numbers_of(name).yield_amount,
      energy |-> numbers_of(name).energy,
      facility_level |-> facility_level,
      module_requirement |-> module_requirement,
      requires_fertilizer |-> requires_fertilizer ]

\* The recipes of an entry: a raw material, or ingredient lists with amounts.
Recipe(raw_materials, required_amount) ==
    [raw_materials |-> raw_materials, required_amount |-> required_amount]
RawRecipe == Recipe(None, None)

Entries(name, recipes, levels, modules, fertilizer, currencies) ==
    { Some(MkItem(name, r.raw_materials, r.required_amount, l, m, f, c)) :
        r \in recipes, l \in levels, m \in modules, f \in fertilizer, c \in currencies }
    \cup {None}

EntriesA ==
    Entries("a",
            { RawRecipe,
              Recipe(Some(<<"a">>), Some(<<2>>)),
              Recipe(Some(<<"b">>), Some(<<2>>)),
              Recipe(Some(<<"b", "c">>), Some(<<1, 3>>)) },
            {1}, {None}, BOOLEAN, {"coins"})

EntriesHighSpeedA ==
    Entries("high_speed_a",
            { RawRecipe,
              Recipe(Some(<<"a">>), Some(<<2>>)),
              Recipe(Some(<<"b">>), Some(<<1>>)) },
            {1, 2}, {None}, {FALSE}, {"coins"})
    \cup
    Entries("high_speed_a",
            { RawRecipe,
              Recipe(Some(<<"a">>), Some(<<2>>)),
              Recipe(Some(<<"b">>), Some(<<1>>)) },
            {1}, {Some(<<"ecological_module", 1>>)}, {FALSE}, {"coins"})

EntriesB ==
    Entries("b",
            { RawRecipe,
              Recipe(Some(<<"a">>), Some(<<30>>)),
              Recipe(Some(<<"c">>), None),
              Recipe(Some(<<"a", "c">>), Some(<<30, 2>>)) },
            {1}, {None}, {FALSE}, {"coins", "coupons"})

EntriesC ==
    Entries("c",
            { RawRecipe, Recipe(Some(<<"a">>), Some(<<5>>)) },
            {1}, {None}, {FALSE}, {"coins"})

\* Option<item> is a sequence of length 0 or 1, so the catalog is the
\* concatenation of the entries present, in the order a, high_speed_a, b, c.
Catalogs ==
    { a \o h \o b \o c :
        a \in EntriesA, h \in EntriesHighSpeedA, b \in EntriesB, c \in EntriesC }

Inventory(farmland, woodland, carousel_mill, nimbus_bed) ==
    [ farmland |-> farmland, woodland |-> woodland, mineral_pile |-> <<1, 1>>,
      carousel_mill |-> carousel_mill, jukebox_dryer |-> <<1, 1>>,
      crafting_table |-> <<1, 1>>, dance_pad_polisher |-> <<1, 1>>,
      aniipod_maker |-> <<1, 1>>, nimbus_bed |-> nimbus_bed ]

Inventories ==
    { Inventory(<<2, l>>, <<1, 1>>, <<1, 1>>, <<n, 1>>) : l \in {1, 2}, n \in {0, 1} }

Modules(ecological_module) ==
    [ ecological_module |-> ecological_module, kitchen_module |-> 0,
      mineral_detector |-> 0, crafting_module |-> 0 ]

ModuleSets == { Modules(e) : e \in {0, 1} }

RequestNames == {"a", "b", "c", "high_speed_a"}
RequestAmounts == {1, 25}
Currencies == {"coins", "coupons"}

---------------------------------------------------------------------------
(* The resolver and the efficiency calculator as a state machine *)

Init ==
    /\ pc = "start"
    /\ items \in Catalogs
    /\ fc \in Inventories
    /\ ml \in ModuleSets
    /\ call = None
    /\ reqs = None
    /\ effs = None
    /\ allocation = None
    /\ selection = None
    /\ energy_effs = None
    /\ path = None

\* A call calculate_item_requirements(item_name, amount, .., &mut HashSet::new())
Resolve(item_name, amount) ==
    /\ pc = "start"
    /\ call' = [item_name |-> item_name, required_amount |-> amount]
    /\ reqs' = calculate_item_requirements(item_name, F(amount),
                   requirements_env(items, fc, ml), {}, 1)
    /\ pc' = "resolved"
    /\ UNCHANGED <<items, fc, ml, effs, allocation, selection, energy_effs, path>>

\* A call calculate_efficiencies(&items, target_currency, &fc, &ml)
CalculateEfficiencies(target_currency) ==
    /\ pc = "start"
    /\ call' = [target_currency |-> target_currency]
    /\ effs' = calculate_efficiencies(items, target_currency, fc, ml)
    /\ pc' = "efficiencies"
    /\ UNCHANGED <<items, fc, ml, reqs, allocation, selection, energy_effs, path>>

Next ==
    \/ \E item_name \in RequestNames, amount \in RequestAmounts :
           Resolve(item_name, amount)
    \/ \E target_currency \in Currencies : CalculateEfficiencies(target_currency)

Spec == Init /\ [][Next]_vars

---------------------------------------------------------------------------
(* The facility allocator as a state machine *)

MaterialsA ==
    { <<"a", batches, time>> :
        batches \in {0, 1, 3, 10},
        time \in {DZero, DParse(19, 10), DParse(5, 1), DParse(311, 10)} }
MaterialsB ==
    { <<"b", batches, time>> :
        batches \in {3, 4, 10}, time \in {DParse(5, 1), DParse(132, 10)} }
MaterialsC == { <<"c", 2, DParse(5, 1)>> }

MaterialLists ==
    {<<>>}
    \cup { <<a>> : a \in MaterialsA }
    \cup { <<a, b>> : a \in MaterialsA, b \in MaterialsB }
    \cup { <<a, b, c>> : a \in MaterialsA, b \in MaterialsB, c \in MaterialsC }

FacilityTotals == {0, 1, 2, 4, 5}

InitAllocator ==
    /\ pc = "start"
    /\ items = <<>>
    /\ fc = Inventory(<<1, 1>>, <<1, 1>>, <<1, 1>>, <<1, 1>>)
    /\ ml = Modules(0)
    /\ call = None
    /\ reqs = None
    /\ effs = None
    /\ allocation = None
    /\ selection = None
    /\ energy_effs = None
    /\ path = None

\* A call calculate_optimal_facility_allocation(&materials, total_facilities)
Allocate(materials, total_facilities) ==
    /\ pc = "start"
    /\ call' = [materials |-> materials, total_facilities |-> total_facilities]
    /\ allocation' = calculate_optimal_facility_allocation(materials, total_facilities)
    /\ pc' = "allocated"
    /\ UNCHANGED <<items, fc, ml, reqs, effs, selection, energy_effs, path>>

NextAllocator ==
    \E materials \in MaterialLists, total_facilities \in FacilityTotals :
        Allocate(materials, total_facilities)

SpecAllocator == InitAllocator /\ [][NextAllocator]_vars

---------------------------------------------------------------------------
(* The planners as state machines: a run computes the efficiencies of its   *)
(* catalog and hands them to one planner, as main.rs and wasm.rs do.        *)

PlannerCatalogs ==
    { a \o d \o b \o c :
        a \in Entries("a", {RawRecipe}, {1}, {None}, {FALSE}, {"coins"}),
        d \in Entries("d", {RawRecipe}, {1}, {None}, {FALSE}, {"coins"}),
        b \in Entries("b",
                  { Recipe(Some(<<"a">>), Some(<<3>>)),
                    Recipe(Some(<<"a", "d">>), Some(<<3, 1>>)),
                    Recipe(Some(<<"c">>), None) },
                  {1}, {None}, {FALSE}, {"coins"}),
        c \in Entries("c", {RawRecipe, Recipe(Some(<<"a">>), Some(<<5>>))},
                  {1}, {None}, {FALSE}, {"coins"}) }
    \cup
    \* a three-level chain: b from a and e, e from c, c raw
    { << MkItem("a", None, None, 1, None, FALSE, "coins"),
         MkItem("c", None, None, 1, None, FALSE, "coins"),
         MkItem("e", Some(<<"c">>), None, 1, None, FALSE, "coins"),
         MkItem("b", Some(<<"a", "e">>), Some(<<3, 1>>), 1, None, FALSE, "coins") >> }

PlannerInventories ==
    { Inventory(<<f, 1>>, <<w, 1>>, <<1, 1>>, <<1, 1>>) : f \in {1, 2}, w \in {0, 1, 2} }

PlannerCurrencies == {"coins"}
TargetAmounts == {F(0), F(8), F(100)}
EnergyCosts == {F(0), F(1), <<5, 2>>, F(4), F(8), F(10)}

InitPlanner ==
    /\ pc = "start"
    /\ items \in PlannerCatalogs
    /\ fc \in PlannerInventories
    /\ ml = Modules(0)
    /\ call = None
    /\ reqs = None
    /\ effs = None
    /\ allocation = None
    /\ selection = None
    /\ energy_effs = None
    /\ path = None

\* A call find_best_production_path(&efficiencies, target_amount,
\* optimize_energy, energy_cost_per_min, &fc)
FindBest(target_amount, optimize_energy, energy_cost_per_min) ==
    /\ pc = "efficiencies"
    /\ ~effs.overflow
    /\ call' = [ planner |-> "best", target_amount |-> target_amount,
                 optimize_energy |-> optimize_energy,
                 energy_cost_per_min |-> energy_cost_per_min ]
    /\ path' = find_best_production_path(effs.efficiencies, target_amount,
                   optimize_energy, energy_cost_per_min, fc)
    /\ pc' = "planned"
    /\ UNCHANGED <<items, fc, ml, reqs, effs, allocation, selection, energy_effs>>

NextBest ==
    \/ \E target_currency \in PlannerCurrencies : CalculateEfficiencies(target_currency)
    \/ \E target_amount \in TargetAmounts, optimize_energy \in BOOLEAN,
          energy_cost_per_min \in EnergyCosts :
           FindBest(target_amount, optimize_energy, energy_cost_per_min)

SpecBest == InitPlanner /\ [][NextBest]_vars

\* A call find_parallel_production_path(&efficiencies, target_amount, &fc), up
\* to the head of the greedy loop.
ParallelStart(target_amount) ==
    /\ pc = "efficiencies"
    /\ ~effs.overflow
    /\ call' = [planner |-> "parallel", target_amount |-> target_amount]
    /\ IF Len(effs.efficiencies) = 0
       THEN /\ path' = None
            /\ pc' = "planned"
            /\ UNCHANGED selection
       ELSE /\ selection' = select_start(effs.efficiencies, target_amount)
            /\ pc' = "selecting"
            /\ UNCHANGED path
    /\ UNCHANGED <<items, fc, ml, reqs, effs, allocation, energy_effs>>

\* One iteration of the greedy loop.
ParallelSelect ==
    /\ pc = "selecting"
    /\ selection.next <= Len(selection.sorted_effs)
    /\ selection' = select_step(selection, fc)
    /\ UNCHANGED <<pc, items, fc, ml, call, reqs, effs, allocation, energy_effs, path>>

\* The rest of the call, from the end of the greedy loop to the return.
ParallelFinish ==
    /\ pc = "selecting"
    /\ selection.next > Len(selection.sorted_effs)
    /\ path' = plan_selected(selection.selected_items, selection.target_amount, fc)
    /\ pc' = "planned"
    /\ UNCHANGED <<items, fc, ml, call, reqs, effs, allocation, selection, energy_effs>>

NextParallel ==
    \/ \E target_currency \in PlannerCurrencies : CalculateEfficiencies(target_currency)
    \/ \E target_amount \in TargetAmounts : ParallelStart(target_amount)
    \/ ParallelSelect
    \/ ParallelFinish

SpecParallel == InitPlanner /\ [][NextParallel]_vars

\* calculate_energy_efficiencies(&items, &fc, &ml), then
\* find_self_sufficient_path(&efficiencies, &energy_efficiencies,
\* target_amount, energy_cost_per_min, &fc)
FindSelfSufficient(target_amount, energy_cost_per_min) ==
    /\ pc = "efficiencies"
    /\ ~effs.overflow
    /\ call' = [ planner |-> "self_sufficient", target_amount |-> target_amount,
                 energy_cost_per_min |-> energy_cost_per_min ]
    /\ energy_effs' = calculate_energy_efficiencies(items, fc, ml)
    /\ path' = find_self_sufficient_path(effs.efficiencies, energy_effs',
                   target_amount, energy_cost_per_min, fc)
    /\ pc' = "planned"
    /\ UNCHANGED <<items, fc, ml, reqs, effs, allocation, selection>>

NextSelfSufficient ==
    \/ \E target_currency \in PlannerCurrencies : CalculateEfficiencies(target_currency)
    \/ \E target_amount \in TargetAmounts, energy_cost_per_min \in EnergyCosts :
           FindSelfSufficient(target_amount, energy_cost_per_min)

SpecSelfSufficient == InitPlanner /\ [][NextSelfSufficient]_vars

\* A run hands its efficiencies to any one of the three planners.
NextPlanners ==
    \/ \E target_currency \in PlannerCurrencies : CalculateEfficiencies(target_currency)
    \/ \E target_amount \in TargetAmounts, optimize_energy \in BOOLEAN,
          energy_cost_per_min \in EnergyCosts :
           FindBest(target_amount, optimize_energy, energy_cost_per_min)
    \/ \E target_amount \in TargetAmounts : ParallelStart(target_amount)
    \/ ParallelSelect
    \/ ParallelFinish
    \/ \E target_amount \in TargetAmounts, energy_cost_per_min \in EnergyCosts :
           FindSelfSufficient(target_amount, energy_cost_per_min)

SpecPlanners == InitPlanner /\ [][NextPlanners]_vars

---------------------------------------------------------------------------
(* The lookups of FacilityCounts as a state machine *)

\* The inventories of the resolver and of the planners, and one whose counts
\* and levels all differ.
FacilityInventories ==
    Inventories \cup PlannerInventories
    \cup { [ farmland |-> <<4, 3>>, woodland |-> <<2, 5>>, mineral_pile |-> <<6, 2>>,
             carousel_mill |-> <<3, 4>>, jukebox_dryer |-> <<5, 6>>,
             crafting_table |-> <<7, 8>>, dance_pad_polisher |-> <<8, 7>>,
             aniipod_maker |-> <<9, 10>>, nimbus_bed |-> <<0, 9>> ] }

\* The facility names of the match arms, and names that are none of them.
FacilityNames ==
    { "Farmland", "Woodland", "Mineral Pile", "Carousel Mill", "Jukebox Dryer",
      "Crafting Table", "Dance Pad Polisher", "Aniipod Maker", "Nimbus Bed",
      "Unknown", "farmland", "" }

MaxRequiredLevel == 3

InitFacilities ==
    /\ pc = "start"
    /\ items = <<>>
    /\ fc \in FacilityInventories
    /\ ml = Modules(0)
    /\ call = None
    /\ reqs = None
    /\ effs = None
    /\ allocation = None
    /\ selection = None
    /\ energy_effs = None
    /\ path = None

\* A call fc.get_count(facility)
GetCount(facility) ==
    /\ pc = "start"
    /\ call' = [ op |-> "get_count", facility |-> facility,
                 result |-> get_count(fc, facility) ]
    /\ pc' = "looked_up"
    /\ UNCHANGED <<items, fc, ml, reqs, effs, allocation, selection, energy_effs, path>>

\* A call fc.get_level(facility)
GetLevel(facility) ==
    /\ pc = "start"
    /\ call' = [ op |-> "get_level", facility |-> facility,
                 result |-> get_level(fc, facility) ]
    /\ pc' = "looked_up"
    /\ UNCHANGED <<items, fc, ml, reqs, effs, allocation, selection, energy_effs, path>>

\* A call fc.can_produce(facility, required_level)
CanProduce(facility, required_level) ==
    /\ pc = "start"
    /\ call' = [ op |-> "can_produce", facility |-> facility,
                 required_level |-> required_level,
                 result |-> can_produce(fc, facility, required_level) ]
    /\ pc' = "looked_up"
    /\ UNCHANGED <<items, fc, ml, reqs, effs, allocation, selection, energy_effs, path>>

NextFacilities ==
    \/ \E facility \in FacilityNames : GetCount(facility)
    \/ \E facility \in FacilityNames : GetLevel(facility)
    \/ \E facility \in FacilityNames, required_level \in 1 .. MaxRequiredLevel :
           CanProduce(facility, required_level)

SpecFacilities == InitFacilities /\ [][NextFacilities]_vars

---------------------------------------------------------------------------
(* Properties of the resolver and the efficiency calculator *)

Range(seq) == {seq[i] : i \in DOMAIN seq}

CatalogNames == {items[i].name : i \in DOMAIN items}
EntryOf(n) == items[CHOOSE i \in DOMAIN items : items[i].name = n]

\* The entry named n exists and the inventory meets its facility level and its
\* module requirement.
Usable(n) ==
    /\ n \in CatalogNames
    /\ get_level(fc, EntryOf(n).facility) >= EntryOf(n).facility_level
    /\ \/ EntryOf(n).module_requirement = None
       \/ module_get_level(ml, EntryOf(n).module_requirement[1][1])
              >= EntryOf(n).module_requirement[1][2]

\* The name of the entry a request for n is to be served from, if any.
UsedEntry(n) ==
    IF Usable("high_speed_" \o n) THEN Some("high_speed_" \o n)
    ELSE IF n \in CatalogNames THEN Some(n)
    ELSE None

\* The ingredient graph: the names a request for n goes on to request.
Ingredients(n) ==
    IF UsedEntry(n) = None THEN {}
    ELSE LET e == EntryOf(UsedEntry(n)[1])
         IN  IF e.raw_materials = None THEN {} ELSE Range(e.raw_materials[1])

RECURSIVE Closure(_)
Closure(S) ==
    LET next == S \cup UNION {Ingredients(n) : n \in S}
    IN  IF next = S THEN S ELSE Closure(next)

\* Every name reachable from n in one or more steps.
Reach(n) == Closure(Ingredients(n))
OnCycle(n) == n \in Reach(n)

AllNames == RequestNames \cup CatalogNames \cup UNION {Closure({n}) : n \in CatalogNames}

\* No request is served from a high_speed_ variant.
NoVariantInUse == \A n \in AllNames : UsedEntry(n) \in {None, Some(n)}

C2_Terminates == pc = "resolved" => ~reqs.overflow

\* C10: a request for X is served from high_speed_X if and only if that entry
\* exists and its facility level and module requirement are met; otherwise from
\* X if it exists; otherwise the result is invalid.
C10_VariantSelection ==
    (pc = "resolved" /\ ~reqs.overflow) =>
        LET X == call.item_name
            used == reqs.selected
        IN  /\ IF Usable("high_speed_" \o X) THEN used = Some("high_speed_" \o X)
               ELSE IF X \in CatalogNames THEN used = Some(X)
               ELSE used = None /\ ~reqs.is_valid
            /\ (reqs.is_valid /\ EntryOf(used[1]).raw_materials = None) =>
                  /\ reqs.raw_names = <<used[1]>>
                  /\ reqs.all_facilities = {EntryOf(used[1]).facility}

\* The variant exists but is not usable, and the base entry served the request.
C10_Witness ==
    /\ pc = "resolved"
    /\ call.item_name = "a"
    /\ "high_speed_a" \in CatalogNames
    /\ ~Usable("high_speed_a")
    /\ reqs.selected = Some("a")
    /\ reqs.is_valid

\* The catalog items calculate_efficiencies is to return.
Eligible(item) ==
    /\ get_level(fc, item.facility) >= item.facility_level
    /\ \/ item.module_requirement = None
       \/ module_get_level(ml, item.module_requirement[1][1])
              >= item.module_requirement[1][2]
    /\ item.sell_currency = call.target_currency
    /\ ~(item.requires_fertilizer /\ get_count(fc, "Nimbus Bed") = 0)
    /\ item.raw_materials # None =>
          \A i \in DOMAIN item.raw_materials[1] :
              calculate_item_requirements(item.raw_materials[1][i],
                  F(required_amount_at(item, i)),
                  requirements_env(items, fc, ml), {}, 1).is_valid

RECURSIVE Filter(_, _)
Filter(seq, i) ==
    IF i > Len(seq) THEN <<>>
    ELSE (IF Eligible(seq[i]) THEN <<seq[i]>> ELSE <<>>) \o Filter(seq, i + 1)

\* C9: calculate_efficiencies returns one entry, in catalog order, for exactly
\* the items that pass the level, module, currency and fertilizer filters and
\* whose ingredients all resolve valid.
C9_EfficienciesAreTheEligibleItems ==
    (pc = "efficiencies" /\ ~effs.overflow) =>
        [k \in DOMAIN effs.efficiencies |-> effs.efficiencies[k].item]
            = Filter(items, 1)

\* Of a catalog of four, one item is returned, one is dropped for its currency
\* and one for an ingredient that does not resolve.
C9_Witness ==
    /\ pc = "efficiencies"
    /\ ~effs.overflow
    /\ Len(items) = 4
    /\ Len(effs.efficiencies) \in 1..2
    /\ \E i \in DOMAIN items : items[i].sell_currency # call.target_currency
    /\ \E i \in DOMAIN items :
          /\ efficiency_filters(items[i], call.target_currency, fc, ml,
                                get_count(fc, "Nimbus Bed"))
          /\ ~Eligible(items[i])

---------------------------------------------------------------------------
(* Properties of the facility allocator *)

RECURSIVE SumOf(_, _)
SumOf(f, i) == IF i > Len(f) THEN 0 ELSE f[i] + SumOf(f, i + 1)

\* Every way to give each of n materials at least one of `total` facilities.
Assignments(n, total) ==
    { ks \in [1..n -> 1..total] : SumOf(ks, 1) <= total }

RECURSIVE MakespanFrom(_, _, _)
\* max over the materials of ceil(batches / k) * time, in the program's arithmetic
MakespanFrom(materials, ks, i) ==
    IF i > Len(materials) THEN DZero
    ELSE LET finish == DMulInt((materials[i][2] + ks[i] - 1) \div ks[i],
                               materials[i][3])
             rest == MakespanFrom(materials, ks, i + 1)
         IN  IF DGt(finish, rest) THEN finish ELSE rest
Makespan(materials, ks) == MakespanFrom(materials, ks, 1)

Assigned == [i \in DOMAIN allocation |-> allocation[i][3]]

\* At least two materials, all with work to do, and a facility for each.
AllocatorContract ==
    /\ pc = "allocated"
    /\ Len(call.materials) >= 2
    /\ \A i \in DOMAIN call.materials :
          call.materials[i][2] > 0 /\ DGt(call.materials[i][3], DZero)
    /\ call.total_facilities >= Len(call.materials)

\* C3: for at least two materials with batches > 0 and time > 0 and a facility
\* for each, the allocator gives every material at least one facility, gives
\* out no more than total_facilities, and no other such assignment has a smaller
\* makespan; ten batches of 5 seconds twice over on 4 facilities get 2 and 2.
C3_AllocationIsOptimal ==
    AllocatorContract =>
        /\ \A i \in DOMAIN Assigned : Assigned[i] >= 1
        /\ SumOf(Assigned, 1) <= call.total_facilities
        /\ \A ks \in Assignments(Len(call.materials), call.total_facilities) :
               DLe(Makespan(call.materials, Assigned), Makespan(call.materials, ks))
        /\ ( /\ call.materials = << <<"a", 10, DParse(5, 1)>>, <<"b", 10, DParse(5, 1)>> >>
             /\ call.total_facilities = 4 ) =>
               /\ Assigned = <<2, 2>>
               /\ Makespan(call.materials, Assigned) = DInt(25)


---------------------------------------------------------------------------
(* Properties of the planners *)

\* The efficiencies the greedy loop selected.
C4_Selected == { selection.selected_items[i] : i \in DOMAIN selection.selected_items }

\* The entry at position k of sorted_effs shares a facility with a selection
\* made at an earlier position.
C4_ClaimedEarlier(k) ==
    \E j \in 1..(k - 1) :
        /\ selection.sorted_effs[j] \in C4_Selected
        /\ selection.sorted_effs[j].all_facilities
               \cap selection.sorted_effs[k].all_facilities # {}

\* C4: in find_parallel_production_path, after every iteration of the greedy
\* selection loop the all_facilities sets of the selected chains are pairwise
\* disjoint, occupied_facilities is their union, and an item any of whose
\* facilities an earlier selection claimed is not selected.
C4_SelectionIsDisjoint ==
    selection # None =>
        /\ \A i, j \in DOMAIN selection.selected_items :
               i # j => selection.selected_items[i].all_facilities
                            \cap selection.selected_items[j].all_facilities = {}
        /\ selection.occupied_facilities
               = UNION { e.all_facilities : e \in C4_Selected }
        /\ \A k \in 1..(selection.next - 1) :
               C4_ClaimedEarlier(k) => selection.sorted_effs[k] \notin C4_Selected

\* The loop selected two chains and rejected a profitable item of a facility
\* the inventory has, for a facility claimed before.
C4_Witness ==
    /\ selection # None
    /\ Len(selection.selected_items) >= 2
    /\ \E k \in 1..(selection.next - 1) :
           /\ selectable(selection.sorted_effs[k], fc)
           /\ C4_ClaimedEarlier(k)
           /\ selection.sorted_effs[k] \notin C4_Selected

\* C5: a plan find_best_production_path returns, in time mode or in energy
\* mode, has a total_profit of target_amount at least.
C5_BestPlanMeetsTarget ==
    (pc = "planned" /\ call.planner = "best" /\ is_some(path))
        => FGe(unwrap(path).total_profit, call.target_amount)

\* C6: a plan find_parallel_production_path returns has a total_profit, the
\* profit summed over its chains and the top-up loop, of target_amount at least.
C6_ParallelPlanMeetsTarget ==
    (pc = "planned" /\ call.planner = "parallel" /\ is_some(path))
        => FGe(unwrap(path).total_profit, call.target_amount)

\* A plan of two chains or more was returned for a target above zero.
C6_Witness ==
    /\ pc = "planned"
    /\ call.planner = "parallel"
    /\ is_some(path)
    /\ FGt(call.target_amount, F(0))
    /\ production_count(unwrap(path).steps) >= 2

\* b * energy_per_batch >= (time_for_profit + production_time *
\* ceil(b / energy_facility_count)) * energy_cost_per_min / 60, for the best
\* energy item of the state and the time of the plan's profit step.
C7_Covers(b) ==
    LET best_energy == energy_effs[1]
        steps == unwrap(path).steps
        time_for_profit == steps[Len(steps)].time
        energy_facility_count == get_count(fc, best_energy.item.facility)
    IN  FGe(FMul(F(b), F(unwrap(best_energy.item.energy))),
            FDiv(FMul(FAdd(time_for_profit,
                           FMul(F(best_energy.item.production_time),
                                F(CeilDiv(b, energy_facility_count)))),
                      call.energy_cost_per_min),
                 F(60)))

\* find_self_sufficient_path returned a self-sufficient plan for a positive
\* energy cost.
C7_Planned ==
    /\ pc = "planned"
    /\ call.planner = "self_sufficient"
    /\ FGt(call.energy_cost_per_min, F(0))
    /\ is_some(path)

\* C7: in a plan find_self_sufficient_path returns for energy_cost_per_min > 0
\* the batch count b of the energy step is the least integer b >= 1 whose
\* energy covers the energy required over the profit time and the energy time.
C7_LeastEnergyBatches ==
    C7_Planned =>
        LET b == unwrap(path).steps[1].quantity
        IN  /\ b >= 1
            /\ C7_Covers(b)
            /\ \A k \in 1..(b - 1) : ~C7_Covers(k)

\* A plan whose energy step takes more than one batch, the least one with
\* energy produced equal to energy required.
C7_Witness ==
    /\ C7_Planned
    /\ unwrap(path).steps[1].quantity > 1
    /\ C7_Covers(unwrap(path).steps[1].quantity)
    /\ LET b == unwrap(path).steps[1].quantity
           best_energy == energy_effs[1]
           steps == unwrap(path).steps
       IN  FEq(FMul(F(b), F(unwrap(best_energy.item.energy))),
               FDiv(FMul(FAdd(steps[Len(steps)].time,
                              FMul(F(best_energy.item.production_time),
                                   F(CeilDiv(b, get_count(fc, best_energy.item.facility))))),
                         call.energy_cost_per_min),
                    F(60)))

\* find_self_sufficient_path was called with a positive energy cost and
\* non-empty lists, and the best energy item's energy_per_second times its
\* facility count is energy_cost_per_min / 60 at most.
C8_CannotSustain ==
    /\ pc = "planned"
    /\ call.planner = "self_sufficient"
    /\ FGt(call.energy_cost_per_min, F(0))
    /\ Len(effs.efficiencies) > 0
    /\ Len(energy_effs) > 0
    /\ FLe(FMul(energy_effs[1].energy_per_second,
                F(get_count(fc, energy_effs[1].item.facility))),
           FDiv(call.energy_cost_per_min, F(60)))

\* C8: with energy_cost_per_min > 0 and non-empty inputs, when the best energy
\* item's energy_per_second times its facility count is energy_cost_per_min / 60
\* at most, find_self_sufficient_path returns None, whatever the target amount.
C8_NoPlanWhenUnsustainable ==
    C8_CannotSustain =>
        /\ \A k \in DOMAIN energy_effs :
               FGe(energy_effs[1].energy_per_second, energy_effs[k].energy_per_second)
        /\ path = None

\* A call for a target of zero whose best energy item produces exactly the
\* energy the cost takes.
C8_Witness ==
    /\ C8_CannotSustain
    /\ call.target_amount = F(0)
    /\ FEq(FMul(energy_effs[1].energy_per_second,
                F(get_count(fc, energy_effs[1].item.facility))),
           FDiv(call.energy_cost_per_min, F(60)))
    /\ path = None

---------------------------------------------------------------------------
(* Properties of the resolver's gates and of its visited set *)

\* The environment of the state's calls of calculate_item_requirements.
ResolverEnv == requirements_env(items, fc, ml)

\* The entry fails a gate: its facility level is above the inventory's, its
\* module requirement is unmet, or it needs fertilizer and no Nimbus Bed is there.
C11_GateFails(e) ==
    \/ get_level(fc, e.facility) < e.facility_level
    \/ /\ e.module_requirement # None
       /\ module_get_level(ml, e.module_requirement[1][1])
              < e.module_requirement[1][2]
    \/ e.requires_fertilizer /\ get_count(fc, "Nimbus Bed") = 0

RECURSIVE C11_HoldsAt(_, _, _, _)
RECURSIVE C11_IngredientsFrom(_, _, _, _, _, _, _)

\* The call that returned r resolved the ingredients of e from the i-th on, in
\* order, up to the first invalid one: r is valid exactly when there is none,
\* and calls, the requests made so far, end up as the requests of r.
C11_IngredientsFrom(i, e, batches_needed, visited, depth, r, calls) ==
    IF i > Len(e.raw_materials[1]) THEN r.is_valid /\ r.calls = calls
    ELSE LET amount == FMul(F(required_amount_at(e, i)), batches_needed)
             sub == calculate_item_requirements(e.raw_materials[1][i], amount,
                        ResolverEnv, visited, depth + 1)
         IN  /\ C11_HoldsAt(e.raw_materials[1][i], amount, visited, depth + 1)
             /\ IF sub.is_valid
                THEN C11_IngredientsFrom(i + 1, e, batches_needed, sub.visited,
                                         depth, r, calls \o sub.calls)
                ELSE ~r.is_valid /\ r.calls = calls \o sub.calls

\* The claim for the call calculate_item_requirements(n, amount, .., visited)
\* and for every call nested in it.
C11_HoldsAt(n, amount, visited, depth) ==
    LET r == calculate_item_requirements(n, amount, ResolverEnv, visited, depth)
    IN  IF n \in visited \/ r.selected = None THEN ~r.is_valid
        ELSE LET e == EntryOf(r.selected[1])
             IN  IF C11_GateFails(e) THEN ~r.is_valid /\ r.calls = <<n>>
                 ELSE IF e.raw_materials = None THEN r.is_valid
                 ELSE C11_IngredientsFrom(1, e,
                          FCeil(FDiv(amount, F(e.yield_amount))),
                          visited \cup {e.name}, depth, r, <<n>>)

\* C11: calculate_item_requirements returns is_valid = false when the selected
\* entry fails a gate (no ingredient is then resolved) or an ingredient resolves
\* invalid (the ingredients after it are then not resolved), and is_valid = true
\* when no gate fails and every ingredient resolves valid.
C11_InvalidIffGateOrIngredientFails ==
    (pc = "resolved" /\ ~reqs.overflow) =>
        /\ reqs = calculate_item_requirements(call.item_name,
                      F(call.required_amount), ResolverEnv, {}, 1)
        /\ C11_HoldsAt(call.item_name, F(call.required_amount), {}, 1)

\* The selected entry passes its gates and has two ingredients; the first
\* resolved invalid and the second was never requested.
C11_Witness ==
    /\ pc = "resolved"
    /\ ~reqs.overflow
    /\ reqs.selected # None
    /\ ~C11_GateFails(EntryOf(reqs.selected[1]))
    /\ EntryOf(reqs.selected[1]).raw_materials # None
    /\ Len(EntryOf(reqs.selected[1]).raw_materials[1]) = 2
    /\ ~reqs.is_valid
    /\ EntryOf(reqs.selected[1]).raw_materials[1][2] \notin Range(reqs.calls)

RECURSIVE C12_RestoredAt(_, _, _, _)
RECURSIVE C12_IngredientsFrom(_, _, _, _, _)

\* The calls for the ingredients of e from the i-th on, each entered with the
\* visited set the one before left, as far as the first invalid one.
C12_IngredientsFrom(i, e, batches_needed, visited, depth) ==
    IF i > Len(e.raw_materials[1]) THEN TRUE
    ELSE LET amount == FMul(F(required_amount_at(e, i)), batches_needed)
             sub == calculate_item_requirements(e.raw_materials[1][i], amount,
                        ResolverEnv, visited, depth + 1)
         IN  /\ C12_RestoredAt(e.raw_materials[1][i], amount, visited, depth + 1)
             /\ sub.is_valid =>
                    C12_IngredientsFrom(i + 1, e, batches_needed, sub.visited, depth)

\* The call calculate_item_requirements(n, amount, .., visited) and every call
\* nested in it return with the visited set they were entered with.
C12_RestoredAt(n, amount, visited, depth) ==
    LET r == calculate_item_requirements(n, amount, ResolverEnv, visited, depth)
    IN  /\ r.visited = visited
        /\ (n \notin visited /\ r.selected # None
                /\ ~C11_GateFails(EntryOf(r.selected[1]))
                /\ EntryOf(r.selected[1]).raw_materials # None) =>
               C12_IngredientsFrom(1, EntryOf(r.selected[1]),
                   FCeil(FDiv(amount, F(EntryOf(r.selected[1]).yield_amount))),
                   visited \cup {r.selected[1]}, depth)

\* C12: on every return path of calculate_item_requirements, at the top and in
\* the nested calls, the visited set is the one the call was entered with.
C12_VisitedRestored ==
    (pc = "resolved" /\ ~reqs.overflow) =>
        C12_RestoredAt(call.item_name, F(call.required_amount), {}, 1)

---------------------------------------------------------------------------
(* Properties of the planners' return values *)

\* C13: find_best_production_path, find_parallel_production_path and
\* find_self_sufficient_path return None when the list of efficiencies handed
\* to them is empty, for every target amount and every inventory.
C13_NoPlanFromNoEfficiencies ==
    (pc = "planned" /\ Len(effs.efficiencies) = 0) => path = None

\* A catalog with entries none of which resolves: the list is empty, and the
\* self-sufficient planner was called with a positive energy cost.
C13_Witness ==
    /\ pc = "planned"
    /\ Len(items) > 0
    /\ Len(effs.efficiencies) = 0
    /\ call.planner = "self_sufficient"
    /\ FGt(call.energy_cost_per_min, F(0))
    /\ path = None

\* The steps of the returned plan that carry a positive profit_contribution.
C14_ProfitSteps ==
    {k \in DOMAIN path[1].steps : FGt(path[1].steps[k].profit_contribution, F(0))}

\* C14: find_parallel_production_path returns None when fewer than two chains
\* survive the greedy selection, and every plan it returns has two steps with
\* positive profit_contribution whose chain_id values differ.
C14_ParallelNeedsTwoChains ==
    (pc = "planned" /\ call.planner = "parallel") =>
        /\ (Len(effs.efficiencies) = 0 \/ Len(selection.selected_items) <= 1) =>
               path = None
        /\ path # None =>
               \E i \in C14_ProfitSteps, j \in C14_ProfitSteps :
                   path[1].steps[i].chain_id # path[1].steps[j].chain_id

\* Several efficiencies were handed in and the greedy selection kept one chain.
C14_Witness ==
    /\ pc = "planned"
    /\ call.planner = "parallel"
    /\ Len(effs.efficiencies) >= 2
    /\ Len(selection.selected_items) = 1
    /\ path = None

\* A plan of find_best_production_path was returned.
BestPlanned == pc = "planned" /\ call.planner = "best" /\ path # None

\* The final production step of the returned plan.
FinalStep == path[1].steps[Len(path[1].steps)]

\* The efficiency the plan was built for: the one of the final step's item.
Chosen ==
    effs.efficiencies[CHOOSE k \in DOMAIN effs.efficiencies :
                          effs.efficiencies[k].item.name = FinalStep.item_name]

C16_ProfitPerBatch ==
    FSub(FMul(F(Chosen.item.sell_value), F(Chosen.item.yield_amount)),
         F(unwrap_or(Chosen.item.cost, 0)))

\* C16: a plan of find_best_production_path for an item without ingredients is
\* one step, for that item, of quantity ceil(target_amount / (sell_value *
\* yield - cost)), and items_produced = quantity * yield; for an item with
\* ingredients the steps are one raw-material step, the intermediate steps in
\* order, then the final production step.
C16_StepsOfBestPlan ==
    BestPlanned =>
        IF Chosen.item.raw_materials = None
        THEN /\ Len(path[1].steps) = 1
             /\ path[1].steps[1].item_name = Chosen.item.name
             /\ F(path[1].steps[1].quantity) =
                    FCeil(FDiv(call.target_amount, C16_ProfitPerBatch))
             /\ path[1].items_produced =
                    path[1].steps[1].quantity * Chosen.item.yield_amount
        ELSE /\ Len(path[1].steps) = Len(Chosen.intermediate_steps) + 2
             /\ path[1].steps[1].item_name = unwrap(Chosen.requires_raw)
             /\ \A k \in DOMAIN Chosen.intermediate_steps :
                    path[1].steps[k + 1].item_name = Chosen.intermediate_steps[k][1]
             /\ FinalStep.item_name = Chosen.item.name
             /\ \A k \in 1 .. Len(path[1].steps) - 1 :
                    path[1].steps[k].profit_contribution = F(0)

---------------------------------------------------------------------------
(* Properties of the efficiencies across inventories *)

\* The inventories with the counts of facility_counts and levels at least its.
C17_LevelsRaised(facility_counts) ==
    { other \in Inventories :
        \A f \in DOMAIN facility_counts :
            /\ other[f][1] = facility_counts[f][1]
            /\ other[f][2] >= facility_counts[f][2] }

\* C17: with the same catalog, currency and modules, calculate_efficiencies
\* returns at least as many entries for an inventory of the same counts whose
\* levels are all at least as high.
C17_MoreLevelsMoreEntries ==
    (pc = "efficiencies" /\ ~effs.overflow) =>
        \A other \in C17_LevelsRaised(fc) :
            LET raised == calculate_efficiencies(items, call.target_currency,
                                                 other, ml)
            IN  ~raised.overflow =>
                    Len(raised.efficiencies) >= Len(effs.efficiencies)

\* The planner inventories with the levels of facility_counts and counts at
\* least its.
C18_CountsRaised(facility_counts) ==
    { other \in PlannerInventories :
        \A f \in DOMAIN facility_counts :
            /\ other[f][2] = facility_counts[f][2]
            /\ other[f][1] >= facility_counts[f][1] }

\* The plan of find_best_production_path, in time mode at energy cost 0, from
\* the efficiencies of the state's catalog under another inventory.
C18_PlanUnder(other, target_currency) ==
    find_best_production_path(
        calculate_efficiencies(items, target_currency, other, ml).efficiencies,
        call.target_amount, FALSE, F(0), other)

\* C18: with the same catalog, modules and target, and all counts at least 1,
\* the plan of find_best_production_path (time mode, energy cost 0) for an
\* inventory of the same levels and counts at least as high has a total_time
\* no greater.
C18_MoreFacilitiesNoSlower ==
    (/\ BestPlanned
     /\ ~call.optimize_energy
     /\ call.energy_cost_per_min = F(0)
     /\ \A f \in DOMAIN fc : fc[f][1] >= 1) =>
        \A other \in C18_CountsRaised(fc), target_currency \in PlannerCurrencies :
            (/\ effs = calculate_efficiencies(items, target_currency, fc, ml)
             /\ C18_PlanUnder(other, target_currency) # None) =>
                FLe(C18_PlanUnder(other, target_currency)[1].total_time,
                    path[1].total_time)

\* C19: for a catalog whose items all have production_time > 0 and yield >= 1,
\* every entry calculate_efficiencies returns has profit_per_second >= 0 and
\* total_time_per_unit > 0.
C19_EntriesAreNonNegative ==
    (/\ pc = "efficiencies"
     /\ ~effs.overflow
     /\ \A i \in DOMAIN items :
            items[i].production_time > 0 /\ items[i].yield_amount >= 1) =>
        \A k \in DOMAIN effs.efficiencies :
            /\ FGe(effs.efficiencies[k].profit_per_second, F(0))
            /\ FGt(effs.efficiencies[k].total_time_per_unit, F(0))

\* C20: for every entry of calculate_efficiencies whose chain runs on
\* facilities of count > 1, the steady-state time per batch that
\* profit_per_second was computed from is at most the sequential time stored as
\* startup_time and total_time_per_unit.
C20_SteadyStateWithinStartup ==
    (pc = "efficiencies" /\ ~effs.overflow) =>
        \A k \in DOMAIN effs.efficiencies :
            (\A f \in effs.efficiencies[k].all_facilities : get_count(fc, f) > 1) =>
                /\ effs.efficiencies[k].startup_time =
                       effs.efficiencies[k].total_time_per_unit
                /\ FLe(effs.efficiencies[k].steady_state_time,
                       effs.efficiencies[k].startup_time)

---------------------------------------------------------------------------
(* Properties of the allocator's return value *)

\* C21: calculate_optimal_facility_allocation returns an empty list for no
\* materials, gives every material 0 facilities when total_facilities = 0, and
\* gives a single material all total_facilities whatever its batches and time.
C21_DegenerateAllocations ==
    pc = "allocated" =>
        /\ call.materials = <<>> => allocation = <<>>
        /\ (call.materials # <<>> /\ call.total_facilities = 0) =>
               allocation = [i \in DOMAIN call.materials |->
                                <<call.materials[i][1], call.materials[i][2], 0>>]
        /\ Len(call.materials) = 1 =>
               allocation = << <<call.materials[1][1], call.materials[1][2],
                                 call.total_facilities>> >>

\* A single material of no batches was handed several facilities and has them.
C21_Witness ==
    /\ pc = "allocated"
    /\ Len(call.materials) = 1
    /\ call.materials[1][2] = 0
    /\ call.total_facilities > 1
    /\ allocation[1][3] = call.total_facilities

\* The facilities the call assigned, in the order of its materials.
Shares == [i \in DOMAIN allocation |-> allocation[i][3]]

\* The materials of the call with batches > 0 and time > 0.
ActiveMaterials ==
    {i \in DOMAIN call.materials :
        call.materials[i][2] > 0 /\ DGt(call.materials[i][3], DZero)}

\* The call took the proportional branch: several materials, at least one
\* facility, more active materials than facilities.
Proportional ==
    /\ pc = "allocated"
    /\ Len(call.materials) >= 2
    /\ call.total_facilities >= 1
    /\ Cardinality(ActiveMaterials) > call.total_facilities

RECURSIVE SumBefore(_, _)
\* shares[1] + .. + shares[n - 1]
SumBefore(shares, n) == IF n <= 1 THEN 0 ELSE SumBefore(shares, n - 1) + shares[n - 1]

\* The last material has what the others left of total_facilities, 0 at least.
C22_LastAbsorbsRemainder ==
    Shares[Len(Shares)] =
        IF SumBefore(Shares, Len(Shares)) >= call.total_facilities THEN 0
        ELSE call.total_facilities - SumBefore(Shares, Len(Shares))

\* Of three materials on two facilities, two get a facility or more.
C22_TwoOfThree ==
    (Len(call.materials) = 3 /\ call.total_facilities = 2) =>
        Cardinality({i \in DOMAIN Shares : Shares[i] >= 1}) >= 2

\* C22, as stated: with more active materials than facilities, every material
\* with batches > 0 gets at least 1 facility, the last material absorbs the
\* rounding remainder, and of 3 materials on 2 facilities two get 1 or more.
C22_EachGetsOne ==
    Proportional =>
        /\ Len(allocation) = Len(call.materials)
        /\ \A i \in DOMAIN call.materials :
               call.materials[i][2] > 0 => Shares[i] >= 1
        /\ C22_LastAbsorbsRemainder
        /\ C22_TwoOfThree

\* C22, amended: with more active materials than facilities, every material
\* but the last gets at least 1 facility if it has batches > 0 and none
\* otherwise, the last material gets what is left of total_facilities, which
\* may be 0, and of 3 materials on 2 facilities two get 1 or more.
C22_EachButLastGetsOne ==
    Proportional =>
        /\ Len(allocation) = Len(call.materials)
        /\ \A i \in 1 .. Len(call.materials) - 1 :
               IF call.materials[i][2] > 0 THEN Shares[i] >= 1 ELSE Shares[i] = 0
        /\ C22_LastAbsorbsRemainder
        /\ C22_TwoOfThree

\* Three active materials on two facilities: the first two have one each and
\* the last, with batches to make, has none.
C22_Witness ==
    /\ Proportional
    /\ Len(call.materials) = 3
    /\ call.total_facilities = 2
    /\ call.materials[3][2] > 0
    /\ Shares = <<1, 1, 0>>

---------------------------------------------------------------------------
(* Properties of the plans' profit *)

RECURSIVE SumProfit(_, _)
\* The sum of profit_contribution over the steps from the i-th on.
SumProfit(steps, i) ==
    IF i > Len(steps) THEN F(0)
    ELSE FAdd(steps[i].profit_contribution, SumProfit(steps, i + 1))

\* The energy efficiency the self-sufficient plan names.
EnergyChosen ==
    energy_effs[CHOOSE k \in DOMAIN energy_effs :
                    energy_effs[k].item.name = path[1].energy_item_name[1]]

\* C23: in every plan a planner returns, the profit_contribution of the steps
\* sums to total_profit; in a self-sufficient plan the energy step carries
\* minus the seed cost, so the sum is the gross profit of the profit step
\* minus energy_batches * cost_per_batch.
C23_StepsSumToTotalProfit ==
    (pc = "planned" /\ path # None) =>
        /\ SumProfit(path[1].steps, 1) = path[1].total_profit
        /\ path[1].is_energy_self_sufficient =>
               /\ path[1].steps[1].profit_contribution =
                      FNeg(FMul(F(path[1].steps[1].quantity),
                                EnergyChosen.cost_per_batch))
               /\ path[1].total_profit =
                      FSub(FinalStep.profit_contribution,
                           FMul(F(path[1].steps[1].quantity),
                                EnergyChosen.cost_per_batch))

\* A self-sufficient plan for an item with ingredients whose energy step has
\* a seed cost.
C23_Witness ==
    /\ pc = "planned"
    /\ path # None
    /\ path[1].is_energy_self_sufficient
    /\ Len(path[1].steps) >= 3
    /\ FLt(path[1].steps[1].profit_contribution, F(0))
    /\ FGt(FinalStep.profit_contribution, F(0))

---------------------------------------------------------------------------
(* Properties of the resolver's totals *)

RECURSIVE C24_Ingredients(_, _, _, _, _)
\* The results of the calls for the ingredients of e from the i-th on, each
\* entered with the visited set the one before left, appended to acc.
C24_Ingredients(i, e, batches_needed, visited, acc) ==
    IF i > Len(e.raw_materials[1]) THEN acc
    ELSE LET sub == calculate_item_requirements(e.raw_materials[1][i],
                        FMul(F(required_amount_at(e, i)), batches_needed),
                        ResolverEnv, visited, 2)
         IN  C24_Ingredients(i + 1, e, batches_needed, sub.visited, Append(acc, sub))

RECURSIVE C24_MaxTime(_, _)
\* The greatest total_time of the results from the i-th on, 0 for none.
C24_MaxTime(subs, i) ==
    IF i > Len(subs) THEN F(0)
    ELSE IF FGt(subs[i].total_time, C24_MaxTime(subs, i + 1))
    THEN subs[i].total_time ELSE C24_MaxTime(subs, i + 1)

RECURSIVE C24_SumTime(_, _)
C24_SumTime(subs, i) ==
    IF i > Len(subs) THEN F(0)
    ELSE FAdd(subs[i].total_time, C24_SumTime(subs, i + 1))

RECURSIVE C24_SumCost(_, _)
C24_SumCost(subs, i) ==
    IF i > Len(subs) THEN F(0)
    ELSE FAdd(subs[i].total_cost, C24_SumCost(subs, i + 1))

RECURSIVE C24_SumEnergy(_, _)
\* The sum of the energies the results from the i-th on have.
C24_SumEnergy(subs, i) ==
    IF i > Len(subs) THEN F(0)
    ELSE FAdd(IF subs[i].total_energy # None THEN subs[i].total_energy[1] ELSE F(0),
              C24_SumEnergy(subs, i + 1))

\* The call returned a valid result for an entry with ingredients.
C24_ValidProcessed ==
    /\ pc = "resolved"
    /\ ~reqs.overflow
    /\ reqs.is_valid
    /\ EntryOf(reqs.selected[1]).raw_materials # None

C24_Entry == EntryOf(reqs.selected[1])

C24_Batches == FCeil(FDiv(F(call.required_amount), F(C24_Entry.yield_amount)))

C24_Subs == C24_Ingredients(1, C24_Entry, C24_Batches, {C24_Entry.name}, <<>>)

\* C24: for a valid item with ingredients, total_time is the greatest of the
\* ingredients' resolved times plus production_time * ceil(batches / count of
\* the processing facility), total_cost is the sum of the ingredients' costs,
\* and total_energy is the sum of the ingredients' energies plus the item's own
\* energy times batches (absent when neither an ingredient nor the item has
\* energy).
C24_MaxTimeSumCostAndEnergy ==
    C24_ValidProcessed =>
        /\ reqs.total_time =
               FAdd(C24_MaxTime(C24_Subs, 1),
                    FMul(F(C24_Entry.production_time),
                         FCeil(FDiv(C24_Batches,
                                    F(get_count(fc, C24_Entry.facility))))))
        /\ reqs.total_cost = C24_SumCost(C24_Subs, 1)
        /\ IF C24_Entry.energy = None
                  /\ \A k \in DOMAIN C24_Subs : C24_Subs[k].total_energy = None
           THEN reqs.total_energy = None
           ELSE reqs.total_energy =
                    Some(FAdd(C24_SumEnergy(C24_Subs, 1),
                              IF C24_Entry.energy # None
                              THEN FMul(F(C24_Entry.energy[1]), C24_Batches)
                              ELSE F(0)))

\* Two ingredients that both take time: the greatest time is not the sum.
C24_Witness ==
    /\ C24_ValidProcessed
    /\ Len(C24_Subs) = 2
    /\ C24_MaxTime(C24_Subs, 1) # C24_SumTime(C24_Subs, 1)
    /\ reqs.total_energy # None

---------------------------------------------------------------------------
(* Properties of the FacilityCounts lookups *)

\* The facility types FacilityCounts has a field for.
Configured ==
    { "Farmland", "Woodland", "Mineral Pile", "Carousel Mill", "Jukebox Dryer",
      "Crafting Table", "Dance Pad Polisher", "Aniipod Maker", "Nimbus Bed" }

\* C25: get_count and get_level return 1 for every facility name that is not a
\* configured facility type, and can_produce(facility, required_level) is true
\* exactly when get_level(facility) >= required_level, so that an unconfigured
\* facility passes the level gate at required level 1 only.
C25_UnknownFacilityDefaults ==
    pc = "looked_up" =>
        /\ (call.op \in {"get_count", "get_level"} /\ call.facility \notin Configured) =>
               call.result = 1
        /\ call.op = "can_produce" =>
               /\ call.result = (get_level(fc, call.facility) >= call.required_level)
               /\ call.facility \notin Configured =>
                      call.result = (call.required_level = 1)

\* can_produce was asked about a facility that is not configured, at level 2,
\* in an inventory with no level 1 at all, and said no.
C25_Witness ==
    /\ pc = "looked_up"
    /\ call.op = "can_produce"
    /\ call.facility = "Unknown"
    /\ call.required_level = 2
    /\ fc.farmland[2] = 3
    /\ call.result = FALSE

---------------------------------------------------------------------------
(* Properties of the steady-state rate *)

\* The catalog entry calculate_item_requirements selects when it resolves the
\* ingredient raw_mat with a fresh visited set, as an Option of its name.
ResolverSelects(raw_mat) ==
    calculate_item_requirements(raw_mat, F(1), ResolverEnv, {}, 1).selected

\* The rate at which the entry named supplier feeds batches that need
\* required_per_batch units each: yield * facility count / production_time
\* / required_per_batch.
C26_SupplyRate(supplier, required_per_batch) ==
    FDiv(FDiv(FMul(F(EntryOf(supplier).yield_amount),
                   F(get_count(fc, EntryOf(supplier).facility))),
              F(EntryOf(supplier).production_time)),
         F(required_per_batch))

RECURSIVE C26_MinRate(_, _, _)
\* The least of rate and the supply rates of the ingredients from the i-th on.
C26_MinRate(item, i, rate) ==
    IF i > Len(item.raw_materials[1]) THEN rate
    ELSE C26_MinRate(item, i + 1,
             FMin(rate, C26_SupplyRate(ResolverSelects(item.raw_materials[1][i])[1],
                                       required_amount_at(item, i))))

\* min(processing rate, supply rates of the ingredients)
C26_Rate(item) ==
    C26_MinRate(item, 1,
        FDiv(F(get_count(fc, item.facility)), F(item.production_time)))

\* C26: for an entry with ingredients, profit_per_second = net_profit * r with
\* r the least of the processing rate facility_count / production_time and of
\* each ingredient's (yield * facility count / production_time) / amount per
\* batch, net_profit = sell_value * yield - ingredient cost, and
\* profit_per_second = 0 when r is 0.
C26_ProfitPerSecondIsBottleneck ==
    (pc = "efficiencies" /\ ~effs.overflow) =>
        \A k \in DOMAIN effs.efficiencies :
            LET eff == effs.efficiencies[k]
                net_profit == FSub(FMul(F(eff.item.sell_value),
                                        F(eff.item.yield_amount)), eff.raw_cost)
            IN  eff.item.raw_materials # None =>
                    eff.profit_per_second =
                        IF C26_Rate(eff.item) = F(0) THEN F(0)
                        ELSE FMul(net_profit, C26_Rate(eff.item))

\* C29: for every ingredient of every entry calculate_efficiencies returns,
\* the catalog entry (base or high_speed_ variant) whose rate and
\* raw_material_details it uses is the entry calculate_item_requirements
\* selects for that ingredient.
C29_RateUsesTheResolvedEntry ==
    (pc = "efficiencies" /\ ~effs.overflow) =>
        \A k \in DOMAIN effs.efficiencies :
            LET eff == effs.efficiencies[k]
            IN  eff.item.raw_materials # None =>
                    /\ Len(eff.rate_items) = Len(eff.item.raw_materials[1])
                    /\ \A i \in DOMAIN eff.rate_items :
                           Some(eff.rate_items[i]) =
                               ResolverSelects(eff.item.raw_materials[1][i])
                    /\ eff.raw_material_details # None =>
                           \A i \in DOMAIN eff.raw_material_details[1] :
                               Some(eff.raw_material_details[1][i][1]) =
                                   ResolverSelects(eff.item.raw_materials[1][i])

---------------------------------------------------------------------------
(* Properties of the parallel planner's selection *)

\* C27: every facility in the all_facilities set of every chain the greedy
\* loop of find_parallel_production_path selects has a count of at least 1.
C27_SelectedChainsHaveFacilities ==
    (pc \in {"selecting", "planned"} /\ selection # None) =>
        \A k \in DOMAIN selection.selected_items :
            \A f \in selection.selected_items[k].all_facilities :
                get_count(fc, f) >= 1

\* C28: on every branch calculate_optimal_facility_allocation returns the
\* materials it was given, in order, with their names and batch counts, and
\* the facilities it assigns sum to total_facilities at most.
C28_AllocationWithinTotal ==
    pc = "allocated" =>
        /\ Len(allocation) = Len(call.materials)
        /\ \A i \in DOMAIN call.materials :
               /\ allocation[i][1] = call.materials[i][1]
               /\ allocation[i][2] = call.materials[i][2]
        /\ SumBefore(Shares, Len(Shares) + 1) <= call.total_facilities

\* C30: a plan of find_self_sufficient_path for a positive energy cost has a
\* total_profit, gross profit less the seed cost of the energy batches, of
\* target_amount at least.
C30_NetProfitMeetsTarget ==
    (pc = "planned" /\ call.planner = "self_sufficient" /\ path # None
        /\ FGt(call.energy_cost_per_min, F(0))) =>
        FGe(unwrap(path).total_profit, call.target_amount)

=============================================================================
